---- MODULE Spec2Model ----
(***************************************************************************)
(* Hex-grid pathfinding and target acquisition of chippy                   *)
(* (src/src/lib/pathfinding.ts): A* search, range-aware effective          *)
(* distance, layered BFS for ranged units, closest-target maps and the     *)
(* memoization caches in front of them.                                    *)
(***************************************************************************)
EXTENDS Integers, Sequences, FiniteSets, TLC

VARIABLES tiles, astar, bfs, cache, call, drag

vars == <<tiles, astar, bfs, cache, call, drag>>

(***************************************************************************)
(* Bounds of the model.                                                    *)
(***************************************************************************)
\* most hexes of a board that are no traversable tile
MaxObstacles == 2
\* the same for the boards of the ranged searches
MaxRangedObstacles == 1
\* last q of the corridor board, a single row of hexes from q = 0
CorridorEnd == 24
\* most targets of a ranged search on the rhombus
MaxTargets == 2
\* most queries of a run that shares one cache
MaxCalls == 2
\* most tiles with characters handed to a closest-target map
MaxUnits == 2
\* keys written beyond the capacity of the largest cache in use
Overflow == 3
\* most queries and repeated writes made on a PathfindingCache
MaxTouches == 2
\* largest hex id whose diagonal row is computed
MaxHexId == 60

(***************************************************************************)
(* Spatial model: a hex is <<q, r>>, s = -q-r being implied.               *)
(***************************************************************************)
NoHex == <<>>

Abs(x) == IF x < 0 THEN -x ELSE x

Max2(a, b) == IF a >= b THEN a ELSE b

\* Hex.distance: the cube-coordinate hex metric
Distance(a, b) ==
  Max2(Max2(Abs(a[1] - b[1]), Abs(a[2] - b[2])),
       Abs((a[1] + a[2]) - (b[1] + b[2])))

\* the six directions, in index order 0..5
Directions == << <<1, 0>>, <<1, -1>>, <<0, -1>>, <<-1, 0>>, <<-1, 1>>, <<0, 1>> >>

\* Hex.neighbor(direction), direction in 0..5
Neighbor(h, d) == <<h[1] + Directions[d + 1][1], h[2] + Directions[d + 1][2]>>

(***************************************************************************)
(* Tiles.  A board maps each hex of its region to the state of the tile    *)
(* the lookup returns there, NoTile where the lookup returns undefined.    *)
(***************************************************************************)
NoTile == "NONE"

\* defaultCanTraverse on a tile state
defaultCanTraverse(state) == state # "BLOCKED" /\ state # "BLOCKED_BREAKABLE"

\* hexes for which getTile returns a tile
Tiled(board) == {h \in DOMAIN board : board[h] # NoTile}

\* hexes whose tile defaultCanTraverse accepts
Traversable(board) == {h \in Tiled(board) : defaultCanTraverse(board[h])}

(***************************************************************************)
(* Priority queue: the set of its entries [item, priority].  dequeue       *)
(* removes an entry of lowest priority; which one among equals is left     *)
(* to the implementation.                                                  *)
(***************************************************************************)
enqueue(q, item, priority) == q \cup {[item |-> item, priority |-> priority]}

\* the entries dequeue may return
MinEntries(q) == {e \in q : \A o \in q : e.priority <= o.priority}

\* the entry dequeue returns under one fixed way of breaking ties
FirstMin(q) == CHOOSE e \in MinEntries(q) : TRUE

\* an update that adds the new entry and leaves the old one in the queue
updatePriorityAdds(q, item, priority) ==
  q \cup {[item |-> item, priority |-> priority]}

\* updatePriority: the entry equal to item moves to its new priority
updatePriority(q, item, priority) ==
  {e \in q : e.item # item} \cup {[item |-> item, priority |-> priority]}

(***************************************************************************)
(* findPath: A* with unit edge cost and the hex distance as heuristic.     *)
(* A run is a record; tiled and trav are the hexes where getTile returns   *)
(* a tile and where canTraverse accepts the tile.                          *)
(***************************************************************************)
\* h of a node: the hex distance to the goal (lines 150, 203)
Heuristic(hex, goal) == Distance(hex, goal)

\* a neighbor test that forgets the traversability predicate
PassableAnyTile(st, n) == n \in st.tiled

\* line 188 negated: the lookup returned a tile and canTraverse accepts it
Passable(st, n) == n \in st.tiled /\ n \in st.trav

\* a relaxation test that never fires
ImprovesNever(tentativeG, knownG) == FALSE

\* line 209: the new path to a known node is strictly better
Improves(tentativeG, knownG) == tentativeG < knownG

\* a neighbor loop that leaves the last direction out
LastDirectionShort == Len(Directions) - 2

\* line 177: directions 0..5 are tried
LastDirection == 5

\* one more occurrence of x in the counts f
Bump(f, x) == IF x \in DOMAIN f THEN [f EXCEPT ![x] = @ + 1] ELSE (x :> 1) @@ f

AStarStart(start, goal, tiled, trav) ==
  [start |-> start, goal |-> goal, tiled |-> tiled, trav |-> trav,
   open |-> enqueue({}, start, Heuristic(start, goal)),
   closed |-> {},
   nodes |-> (start :> [g |-> 0, h |-> Heuristic(start, goal),
                        f |-> Heuristic(start, goal), parent |-> NoHex]),
   status |-> "running", found |-> FALSE, path |-> <<>>,
   lookups |-> 0, enqueues |-> (start :> 1), dequeues |-> <<>>, relaxed |-> 0]

\* one pass of the neighbor loop body (lines 178-216)
RelaxNeighbor(st, cur, d) ==
  LET n == Neighbor(cur, d)
  IN  IF n \in st.closed THEN st
      ELSE LET looked == [st EXCEPT !.lookups = @ + 1]
               tentativeG == st.nodes[cur].g + 1
           IN  IF ~Passable(st, n) THEN looked
               ELSE IF n \notin DOMAIN st.nodes
                 THEN [looked EXCEPT
                         !.nodes = (n :> [g |-> tentativeG,
                                          h |-> Heuristic(n, st.goal),
                                          f |-> tentativeG + Heuristic(n, st.goal),
                                          parent |-> cur]) @@ @,
                         !.open = enqueue(@, n, tentativeG + Heuristic(n, st.goal)),
                         !.enqueues = Bump(@, n)]
               ELSE IF Improves(tentativeG, st.nodes[n].g)
                 THEN [looked EXCEPT
                         !.nodes[n] = [g |-> tentativeG, h |-> @.h,
                                       f |-> tentativeG + @.h, parent |-> cur],
                         !.open = updatePriority(@, n, tentativeG + st.nodes[n].h),
                         !.relaxed = @ + 1]
               ELSE looked

RECURSIVE ExpandNeighbors(_, _, _)
\* the loop over the directions d..5, the run after each pass of the body
\* being computed once
ExpandNeighbors(st, cur, d) ==
  IF d > LastDirection THEN st
  ELSE CHOOSE out \in {ExpandNeighbors(relaxed, cur, d + 1) :
                        relaxed \in {RelaxNeighbor(st, cur, d)}} : TRUE

RECURSIVE ReconstructPath(_, _)
\* the parent chain from the start to h
ReconstructPath(nodes, h) ==
  IF nodes[h].parent = NoHex THEN <<h>>
  ELSE Append(ReconstructPath(nodes, nodes[h].parent), h)

\* one iteration of the while loop, entry e of the open set being dequeued
AStarIteration(st, e) ==
  LET cur == e.item
      popped == [st EXCEPT !.open = @ \ {e}, !.dequeues = Bump(@, cur)]
  IN  IF cur = st.goal
        THEN [popped EXCEPT !.status = "done", !.found = TRUE,
                            !.path = ReconstructPath(st.nodes, cur)]
        ELSE ExpandNeighbors([popped EXCEPT !.closed = @ \cup {cur}], cur, 0)

\* the open set has emptied: return null
AStarGiveUp(st) == [st EXCEPT !.status = "done", !.found = FALSE, !.path = <<>>]

RECURSIVE AStarRun(_)
AStarRun(st) ==
  IF st.status = "done" THEN st
  ELSE IF st.open = {} THEN AStarGiveUp(st)
  ELSE AStarRun(AStarIteration(st, FirstMin(st.open)))

\* findPath as a function of its arguments
findPath(start, goal, tiled, trav) == AStarRun(AStarStart(start, goal, tiled, trav))

\* a distance that counts the hexes of the path instead of its steps
PathDistanceInHexes(run) ==
  [found |-> run.found, steps |-> IF run.found THEN Len(run.path) ELSE 0]

\* line 234: the steps of the path of a finished run, found being FALSE
\* for null
PathDistance(run) ==
  [found |-> run.found, steps |-> IF run.found THEN Len(run.path) - 1 ELSE 0]

\* lines 227-235: findPathDistance as a function of its arguments
findPathDistance(start, goal, tiled, trav) ==
  PathDistance(findPath(start, goal, tiled, trav))

(***************************************************************************)
(* calculateRangedMovementDistance: breadth-first layers around start.     *)
(***************************************************************************)
\* the value of a movementDistance that is Infinity
Infinity == 1000000

\* line 336: the cap on the number of layers
MaxLayers == 20

RECURSIVE Dedup(_)
\* lines 367-369: the first occurrence of every hex, in order
Dedup(hexes) ==
  IF hexes = <<>> THEN <<>>
  ELSE LET rest == Dedup(SubSeq(hexes, 1, Len(hexes) - 1))
           last == hexes[Len(hexes)]
       IN  IF \E i \in 1..Len(rest) : rest[i] = last THEN rest
           ELSE Append(rest, last)

\* a result list that keeps every accumulated target
uniqueTargetsKeepsAll(reachable) == reachable

\* lines 367-369: uniqueTargets, the accumulated targets without repeats
uniqueTargets(reachable) == Dedup(reachable)

\* a scan that stops at the first target within range
InRangeFirst(hex, targets, range) ==
  IF \E i \in 1..Len(targets) : Distance(hex, targets[i]) <= range
    THEN <<targets[CHOOSE i \in 1..Len(targets) :
                     /\ Distance(hex, targets[i]) <= range
                     /\ \A j \in 1..(i - 1) : Distance(hex, targets[j]) > range]>>
    ELSE <<>>

\* the targets within range of hex, in list order
InRange(hex, targets, range) ==
  SelectSeq(targets, LAMBDA t : Distance(hex, t) <= range)

RangedResult(movementDistance, canReach, reachableTargets) ==
  [movementDistance |-> movementDistance, canReach |-> canReach,
   reachableTargets |-> reachableTargets]

\* a call that has not yet run a line
RangedCall(start, targets, range, tiled, trav) ==
  [start |-> start, targets |-> targets, range |-> range,
   tiled |-> tiled, trav |-> trav,
   currentMoves |-> 0, currentQueue |-> <<>>, nextQueue |-> <<>>,
   visited |-> {}, reachableAtThisDistance |-> <<>>,
   status |-> "entry", result |-> RangedResult(Infinity, FALSE, <<>>),
   layers |-> 0, lookups |-> 0, pushes |-> <<>>]

\* lines 312-334: the empty list, the targets already in range, the setup
RangedEntry(st) ==
  IF st.targets = <<>>
    THEN [st EXCEPT !.status = "done", !.result = RangedResult(Infinity, FALSE, <<>>)]
  ELSE IF InRange(st.start, st.targets, st.range) # <<>>
    THEN [st EXCEPT !.status = "done",
                    !.result = RangedResult(0, TRUE,
                                 InRange(st.start, st.targets, st.range))]
  ELSE [st EXCEPT !.status = "looping", !.currentQueue = <<st.start>>,
                  !.visited = {st.start}]

\* lines 343-360 for one direction of one hex of the frontier
RangedNeighbor(st, cur, d) ==
  LET n == Neighbor(cur, d)
  IN  IF n \in st.visited THEN st
      ELSE LET looked == [st EXCEPT !.lookups = @ + 1]
           IN  IF ~Passable(st, n) THEN looked
               ELSE [looked EXCEPT
                       !.visited = @ \cup {n},
                       !.nextQueue = Append(@, n),
                       !.pushes = Bump(@, n),
                       !.reachableAtThisDistance =
                          @ \o InRange(n, st.targets, st.range)]

RECURSIVE RangedDirections(_, _, _)
\* the loop over the directions d..5 of one frontier hex
RangedDirections(st, cur, d) ==
  IF d > LastDirection THEN st
  ELSE CHOOSE out \in {RangedDirections(seen, cur, d + 1) :
                        seen \in {RangedNeighbor(st, cur, d)}} : TRUE

RECURSIVE RangedFrontier(_, _)
\* line 340: the loop over the frontier from its i-th hex on
RangedFrontier(st, i) ==
  IF i > Len(st.currentQueue) THEN st
  ELSE CHOOSE out \in {RangedFrontier(expanded, i + 1) :
                        expanded \in {RangedDirections(st, st.currentQueue[i], 0)}} : TRUE

\* a loop that may run one layer more than the cap
RangedContinuesOneMore(st) ==
  st.currentQueue # <<>> /\ st.currentMoves <= MaxLayers

\* a loop that stops one layer before the cap
RangedContinuesOneLess(st) ==
  st.currentQueue # <<>> /\ st.currentMoves < MaxLayers - 1

\* line 336: the loop condition
RangedContinues(st) == st.currentQueue # <<>> /\ st.currentMoves < MaxLayers

\* lines 364-380: the end of a pass, after being the call once the
\* frontier has been expanded
RangedSettle(st, after) ==
  IF after.reachableAtThisDistance # <<>>
    THEN [after EXCEPT
            !.status = "done", !.layers = @ + 1,
            !.result = RangedResult(st.currentMoves + 1, TRUE,
                                    uniqueTargets(after.reachableAtThisDistance))]
    ELSE [after EXCEPT
            !.currentQueue = after.nextQueue, !.nextQueue = <<>>,
            !.currentMoves = @ + 1, !.layers = @ + 1]

\* lines 337-381: one pass of the while loop
RangedLayer(st) ==
  RangedSettle(st, RangedFrontier([st EXCEPT !.reachableAtThisDistance = <<>>], 1))

\* line 384: the loop has ended without a target
RangedGiveUp(st) ==
  [st EXCEPT !.status = "done", !.result = RangedResult(Infinity, FALSE, <<>>)]

RECURSIVE RangedRun(_)
RangedRun(st) ==
  IF st.status = "done" THEN st
  ELSE IF st.status = "entry" THEN RangedRun(RangedEntry(st))
  ELSE IF RangedContinues(st) THEN RangedRun(RangedLayer(st))
  ELSE RangedGiveUp(st)

\* calculateRangedMovementDistance as a function of its arguments
calculateRangedMovementDistance(start, targets, range, tiled, trav) ==
  RangedRun(RangedCall(start, targets, range, tiled, trav))

(***************************************************************************)
(* Memoization.  A MemoCache is the list of its entries [key, value], the  *)
(* least recently used first.                                              *)
(***************************************************************************)
\* PathfindingCache: capacities of the four caches (lines 49-52)
PathCacheCapacity == 500
EffectiveDistanceCacheCapacity == 500
ClosestEnemyCacheCapacity == 100
ClosestAllyCacheCapacity == 100

MemoHas(entries, key) == \E i \in 1..Len(entries) : entries[i].key = key

MemoValue(entries, key) ==
  entries[CHOOSE i \in 1..Len(entries) : entries[i].key = key].value

MemoWithout(entries, key) == SelectSeq(entries, LAMBDA e : e.key # key)

\* a get that leaves the order of the entries alone
MemoPeek(entries, key) == entries

\* MemoCache.get on a hit: the entry becomes the most recently used
MemoTouch(entries, key) ==
  IF MemoHas(entries, key)
    THEN Append(MemoWithout(entries, key),
                [key |-> key, value |-> MemoValue(entries, key)])
    ELSE entries

\* MemoCache.set: the entry is stored as the most recently used and the
\* least recently used one is dropped beyond the capacity
MemoSet(entries, key, value, capacity) ==
  LET stored == Append(MemoWithout(entries, key), [key |-> key, value |-> value])
  IN  IF Len(stored) > capacity THEN Tail(stored) ELSE stored

\* new PathfindingCache()
EmptyCache ==
  [pathCache |-> <<>>, effectiveDistanceCache |-> <<>>,
   closestEnemyCache |-> <<>>, closestAllyCache |-> <<>>]

\* PathfindingCache.setPath (lines 59-61)
setPath(c, key, value) ==
  [c EXCEPT !.pathCache = MemoSet(@, key, value, PathCacheCapacity)]

\* PathfindingCache.setEffectiveDistance
setEffectiveDistance(c, key, value) ==
  [c EXCEPT !.effectiveDistanceCache =
              MemoSet(@, key, value, EffectiveDistanceCacheCapacity)]

\* the four caches of a PathfindingCache (lines 49-52)
CacheKinds ==
  {"pathCache", "effectiveDistanceCache", "closestEnemyCache", "closestAllyCache"}

\* lines 49-52: the capacity each cache is constructed with
CacheCapacity(kind) ==
  IF kind = "pathCache" THEN PathCacheCapacity
  ELSE IF kind = "effectiveDistanceCache" THEN EffectiveDistanceCacheCapacity
  ELSE IF kind = "closestEnemyCache" THEN ClosestEnemyCacheCapacity
  ELSE ClosestAllyCacheCapacity

\* setPath, setEffectiveDistance, setClosestEnemyMap and setClosestAllyMap
\* (lines 58-60, 67-70, 76-79, 85-88) applied with one key and value to the
\* caches of kinds
CacheSetAll(c, kinds, key, value) ==
  [kind \in CacheKinds |->
     IF kind \in kinds THEN MemoSet(c[kind], key, value, CacheCapacity(kind))
     ELSE c[kind]]

\* getPath, getEffectiveDistance, getClosestEnemyMap and getClosestAllyMap
\* (lines 54-56, 63-65, 72-74, 81-83): the cache after the query
CacheGet(c, kind, key) == [c EXCEPT ![kind] = MemoTouch(@, key)]

\* PathfindingCache.clear (lines 91-96): MemoCache.clear on the four caches
clear(c) == [kind \in CacheKinds |-> <<>>]

\* the cacheType values of clearSpecific (line 98)
CacheTypes == {"path", "effectiveDistance", "closestEnemy", "closestAlly"}

\* a clearSpecific that clears every cache
clearSpecificAll(c, cacheType) == clear(c)

\* PathfindingCache.clearSpecific (lines 98-113)
clearSpecific(c, cacheType) ==
  IF cacheType = "path" THEN [c EXCEPT !.pathCache = <<>>]
  ELSE IF cacheType = "effectiveDistance"
    THEN [c EXCEPT !.effectiveDistanceCache = <<>>]
  ELSE IF cacheType = "closestEnemy" THEN [c EXCEPT !.closestEnemyCache = <<>>]
  ELSE IF cacheType = "closestAlly" THEN [c EXCEPT !.closestAllyCache = <<>>]
  ELSE c

\* clearPathfindingCache (lines 774-776)
clearPathfindingCache(c) == clear(c)

\* clearSpecificCache (lines 781-786)
clearSpecificCache(cacheType, c) == clearSpecific(c, cacheType)

\* PathfindingCache.getStats
getStats(c) ==
  [pathCacheSize |-> Len(c.pathCache),
   effectiveDistanceCacheSize |-> Len(c.effectiveDistanceCache),
   closestEnemyCacheSize |-> Len(c.closestEnemyCache),
   closestAllyCacheSize |-> Len(c.closestAllyCache)]

\* generatePathCacheKey
generatePathCacheKey(startId, goalId, range) == <<startId, goalId, range>>

\* Hex.getId: the identifier the grid gave the hex, row by row from 1
getId(h) == 1 + h[1] + 4 * h[2]

(***************************************************************************)
(* calculateEffectiveDistance.  An outcome is the returned DistanceResult, *)
(* the cache as the call leaves it and the number of tile lookups made.    *)
(***************************************************************************)
DistanceResult(movementDistance, canReach, directDistance) ==
  [movementDistance |-> movementDistance, canReach |-> canReach,
   directDistance |-> directDistance]

Outcome(result, c, lookups) == [result |-> result, cache |-> c, lookups |-> lookups]

\* an in-range test that is off by one
WithinRangeStrict(directDistance, range) == directDistance < range

\* line 263: the target is within range
WithinRange(directDistance, range) == directDistance <= range

\* a movement count that forgets that the path includes the start
MovementNeededFromHexes(path, range) == Max2(0, Len(path) - range)

\* lines 286-287: tiles to move along path to get within range
MovementNeeded(path, range) == Max2(0, (Len(path) - 1) - range)

\* a result that reports a missing path as reachable
DistanceAlongPathReachable(run, range, directDistance) ==
  [result |-> DistanceResult(IF run.found THEN MovementNeeded(run.path, range)
                                          ELSE Infinity,
                             TRUE, directDistance),
   lookups |-> run.lookups]

\* lines 275-293: the result read off a finished findPath run
DistanceAlongPath(run, range, directDistance) ==
  IF ~run.found
    THEN [result |-> DistanceResult(Infinity, FALSE, directDistance),
          lookups |-> run.lookups]
    ELSE [result |-> DistanceResult(MovementNeeded(run.path, range),
                                    TRUE, directDistance),
          lookups |-> run.lookups]

\* lines 259-299: the computation behind the cache
ComputeEffectiveDistance(start, goal, range, tiled, trav) ==
  IF WithinRange(Distance(start, goal), range)
    THEN [result |-> DistanceResult(0, TRUE, Distance(start, goal)), lookups |-> 0]
    ELSE DistanceAlongPath(findPath(start, goal, tiled, trav), range,
                           Distance(start, goal))

\* a lookup that forgets the cachingEnabled flag
ConsultsCacheAlways(cachingEnabled) == TRUE

\* line 251: the cache is consulted only when caching is enabled
ConsultsCache(cachingEnabled) == cachingEnabled

\* a store that skips the results that report no path
StoreReachableOnly(computed, cacheKey, cachingEnabled, c) ==
  Outcome(computed.result,
          IF cachingEnabled /\ computed.result.canReach
            THEN setEffectiveDistance(c, cacheKey, computed.result)
            ELSE c,
          computed.lookups)

\* lines 265-268, 278-281, 295-298: the computed result is cached when
\* caching is enabled
StoreEffectiveDistance(computed, cacheKey, cachingEnabled, c) ==
  Outcome(computed.result,
          IF cachingEnabled
            THEN setEffectiveDistance(c, cacheKey, computed.result)
            ELSE c,
          computed.lookups)

\* lines 250-300
calculateEffectiveDistance(start, goal, range, tiled, trav, cachingEnabled, c) ==
  LET cacheKey == generatePathCacheKey(getId(start), getId(goal), range)
  IN  IF ConsultsCache(cachingEnabled) /\ MemoHas(c.effectiveDistanceCache, cacheKey)
        THEN Outcome(MemoValue(c.effectiveDistanceCache, cacheKey),
                     [c EXCEPT !.effectiveDistanceCache = MemoTouch(@, cacheKey)],
                     0)
        ELSE StoreEffectiveDistance(
               ComputeEffectiveDistance(start, goal, range, tiled, trav),
               cacheKey, cachingEnabled, c)

(***************************************************************************)
(* Tie-breaking helpers.                                                   *)
(***************************************************************************)
\* lines 410-426: the last hex id of each tabled diagonal row
rowEndings == <<2, 5, 7, 10, 14, 17, 21, 24, 28, 31, 35, 38, 40, 43, 45>>

RECURSIVE FallbackRow(_, _, _)
\* lines 441-460: rows beyond the table
FallbackRow(hexId, currentEnd, rowNum) ==
  IF hexId > currentEnd
    THEN LET rowSize == IF rowNum % 4 = 1 /\ rowNum > 4 THEN 4
                        ELSE IF rowNum % 2 = 0 THEN 3 ELSE 2
         IN  IF hexId <= currentEnd + rowSize THEN rowNum + 1
             ELSE FallbackRow(hexId, currentEnd + rowSize, rowNum + 1)
    ELSE rowNum

\* a row number that knows the tabled rows only and puts every larger id
\* into the last of them
getRowNumberTabled(hexId) ==
  IF \E i \in 1..Len(rowEndings) : hexId <= rowEndings[i]
    THEN CHOOSE i \in 1..Len(rowEndings) :
           /\ hexId <= rowEndings[i]
           /\ \A j \in 1..(i - 1) : hexId > rowEndings[j]
    ELSE Len(rowEndings)

\* lines 408-461
getRowNumber(hexId) ==
  IF \E i \in 1..Len(rowEndings) : hexId <= rowEndings[i]
    THEN CHOOSE i \in 1..Len(rowEndings) :
           /\ hexId <= rowEndings[i]
           /\ \A j \in 1..(i - 1) : hexId > rowEndings[j]
    ELSE FallbackRow(hexId, 45, 16)

areHexesInSameDiagonalRow(hexId1, hexId2) ==
  getRowNumber(hexId1) = getRowNumber(hexId2)

\* an alignment test on the wrong axis
isAlignedOnR(sourceHex, targetHex) == sourceHex[2] = targetHex[2]

\* lines 469-471
isVerticallyAligned(sourceHex, targetHex) == sourceHex[1] = targetHex[1]

(***************************************************************************)
(* findClosestTarget.  A TargetResult is [found, hexId, distance], found   *)
(* being FALSE for null.                                                   *)
(***************************************************************************)
NoTarget == [found |-> FALSE, hexId |-> 0, distance |-> 0]

TargetResult(hexId, distance) == [found |-> TRUE, hexId |-> hexId, distance |-> distance]

\* a tie-break that lets the later rules overturn an aligned best target
KeepsAlignedNever(currentIsVertical, bestIsVertical) == FALSE

\* lines 537 and 605: the best target so far is aligned and the candidate
\* is not, so the best target stays
KeepsAligned(currentIsVertical, bestIsVertical) ==
  ~currentIsVertical /\ bestIsVertical

\* a same-row rule that prefers the higher id
PrefersHigherId(currentId, bestId) == currentId > bestId

\* lines 541 and 610: in one diagonal row the lower id wins
PrefersLowerId(currentId, bestId) == currentId < bestId

\* a fallback that prefers the target farther from the source
FartherDirect(currentDirectDistance, bestDirectDistance) ==
  currentDirectDistance > bestDirectDistance

\* lines 547 and 619: the candidate wins when it is strictly nearer to the
\* source in hex distance
NearerDirect(currentDirectDistance, bestDirectDistance) ==
  currentDirectDistance < bestDirectDistance

\* lines 531-551: the candidate replaces the best target so far
RangedCandidateWins(source, current, best) ==
  LET currentIsVertical == isVerticallyAligned(source, current)
      bestIsVertical == isVerticallyAligned(source, best)
  IN  IF currentIsVertical /\ ~bestIsVertical THEN TRUE
      ELSE IF KeepsAligned(currentIsVertical, bestIsVertical) THEN FALSE
      ELSE IF areHexesInSameDiagonalRow(getId(current), getId(best))
        THEN PrefersLowerId(getId(current), getId(best))
      ELSE IF ~currentIsVertical /\ ~bestIsVertical
        THEN NearerDirect(Distance(source, current), Distance(source, best))
      ELSE FALSE

RECURSIVE RangedBest(_, _, _, _)
\* lines 528-552: the loop over the candidates from the i-th on
RangedBest(source, candidates, best, i) ==
  IF i > Len(candidates) THEN best
  ELSE RangedBest(source, candidates,
                  IF RangedCandidateWins(source, candidates[i], best)
                    THEN candidates[i] ELSE best,
                  i + 1)

\* lines 519-521: the targets of the list that are among the reachable
\* ones, in list order
RangedCandidates(targets, reachable) ==
  SelectSeq(targets, LAMBDA t : \E i \in 1..Len(reachable) : reachable[i] = t)

\* lines 514-557: the target picked from a finished breadth-first run
RangedPick(source, targets, run, candidates, c) ==
  IF ~run.result.canReach \/ run.result.reachableTargets = <<>>
       \/ candidates = <<>>
    THEN Outcome(NoTarget, c, run.lookups)
    ELSE Outcome(TargetResult(
                   getId(RangedBest(source, candidates, candidates[1], 2)),
                   run.result.movementDistance),
                 c, run.lookups)

\* lines 514-557: the ranged branch once the breadth-first run has finished
RangedChoice(source, targets, run, c) ==
  RangedPick(source, targets, run,
             RangedCandidates(targets, run.result.reachableTargets), c)

\* lines 504-558: the ranged branch
FindClosestRanged(source, targets, range, tiled, trav, c) ==
  RangedChoice(source, targets,
               calculateRangedMovementDistance(source, targets, range, tiled, trav),
               c)

\* line 597: the tile of the list that carries the id
TileById(targets, hexId) ==
  targets[CHOOSE i \in 1..Len(targets) :
            /\ getId(targets[i]) = hexId
            /\ \A j \in 1..(i - 1) : getId(targets[j]) # hexId]

\* lines 596-626: the target replaces the closest one so far on a tie
MeleeCandidateWins(source, target, closestTile) ==
  LET currentIsVertical == isVerticallyAligned(source, target)
      closestIsVertical == isVerticallyAligned(source, closestTile)
  IN  IF currentIsVertical /\ ~closestIsVertical THEN TRUE
      ELSE IF KeepsAligned(currentIsVertical, closestIsVertical) THEN FALSE
      ELSE IF areHexesInSameDiagonalRow(getId(target), getId(closestTile))
        THEN PrefersLowerId(getId(target), getId(closestTile))
      ELSE IF ~currentIsVertical /\ ~closestIsVertical
        THEN NearerDirect(Distance(source, target), Distance(source, closestTile))
      ELSE FALSE

\* a comparison that never lets a later target take over by distance
CloserNever(distance, closestDistance) == FALSE

\* line 589: the target needs strictly fewer moves than the closest so far
Closer(distance, closestDistance) == distance < closestDistance

\* lines 582-627: the closest target so far after out, the outcome of
\* calculateEffectiveDistance for target
MeleeConsider(acc, source, targets, target, out) ==
  LET seen == [acc EXCEPT !.cache = out.cache, !.lookups = @ + out.lookups]
      distance == out.result.movementDistance
      taken == [seen EXCEPT !.result = TargetResult(getId(target), distance)]
  IN  IF ~out.result.canReach THEN seen
      ELSE IF ~acc.result.found \/ Closer(distance, acc.result.distance)
        THEN taken
      ELSE IF distance = acc.result.distance
             /\ MeleeCandidateWins(source, target,
                                   TileById(targets, acc.result.hexId))
        THEN taken
      ELSE seen

\* a predicate handed on as it is, the cell of the target included
TraverseAsGiven(trav, target) == trav

\* lines 564-569: canTraverseToTarget accepts the cell of the target and
\* otherwise what canTraverse accepts
canTraverseToTarget(trav, target) == trav \cup {target}

\* lines 564-627: the loop body for one target
MeleeStep(acc, source, targets, target, range, tiled, trav, cachingEnabled) ==
  MeleeConsider(acc, source, targets, target,
                calculateEffectiveDistance(source, target, range, tiled,
                  canTraverseToTarget(trav, target), cachingEnabled,
                  acc.cache))

RECURSIVE MeleeLoop(_, _, _, _, _, _, _, _)
\* line 563: the loop over the targets from the i-th on
MeleeLoop(acc, source, targets, i, range, tiled, trav, cachingEnabled) ==
  IF i > Len(targets) THEN acc
  ELSE MeleeLoop(MeleeStep(acc, source, targets, targets[i], range, tiled,
                           trav, cachingEnabled),
                 source, targets, i + 1, range, tiled, trav, cachingEnabled)

\* lines 499-631
findClosestTarget(source, targets, sourceRange, tiled, trav, cachingEnabled, c) ==
  IF targets = <<>> THEN Outcome(NoTarget, c, 0)
  ELSE IF sourceRange > 1
    THEN FindClosestRanged(source, targets, sourceRange, tiled, trav, c)
  ELSE MeleeLoop(Outcome(NoTarget, c, 0), source, targets, 1, sourceRange,
                 tiled, trav, cachingEnabled)

(***************************************************************************)
(* getClosestEnemyMap and getClosestAllyMap.  A tile with a character is   *)
(* [hex, team, character], character being NoCharacter when absent; the    *)
(* resulting Map is a function from source hex ids to TargetInfo.          *)
(***************************************************************************)
NoCharacter == ""

\* generateGridCacheKey: the occupied positions with team and occupant and
\* the ranges, whatever the order of the list
generateGridCacheKey(tilesWithCharacters, characterRanges) ==
  <<{<<getId(tilesWithCharacters[i].hex), tilesWithCharacters[i].team,
       tilesWithCharacters[i].character>> : i \in 1..Len(tilesWithCharacters)},
    characterRanges>>

\* lines 661-662: the tiles of one team, in list order
TeamTiles(tilesWithCharacters, team) ==
  SelectSeq(tilesWithCharacters, LAMBDA t : t.team = team)

\* a range that ignores characterRanges
RangeOfDefault(tile, characterRanges) == 1

\* lines 674, 739: the range of the occupant, 1 when unknown
RangeOf(tile, characterRanges) ==
  IF tile.character # NoCharacter /\ tile.character \in DOMAIN characterRanges
    THEN characterRanges[tile.character]
    ELSE 1

HexesOf(tileList) == [i \in 1..Len(tileList) |-> tileList[i].hex]

\* lines 665-670: the hexes the tile lookup in use finds a tile for; the
\* default lookup scans the list
LookupTiled(tilesWithCharacters, supplied, board) ==
  IF supplied THEN Tiled(board)
  ELSE {tilesWithCharacters[i].hex : i \in 1..Len(tilesWithCharacters)}

\* the hexes whose tile defaultCanTraverse accepts under that lookup; the
\* tile of a character is never a blocked one
LookupTraversable(tilesWithCharacters, supplied, board) ==
  IF supplied THEN Traversable(board)
  ELSE {tilesWithCharacters[i].hex : i \in 1..Len(tilesWithCharacters)}

\* lines 686-691 and 751-756: the map with the entry of source when found,
\* the outcome of findClosestTarget, is a target
ClosestEntry(acc, source, found, field) ==
  Outcome(IF found.result.found
            THEN (getId(source.hex) :>
                    [f \in {field, "distance"} |->
                       IF f = field THEN found.result.hexId
                       ELSE found.result.distance]) @@ acc.result
            ELSE acc.result,
          found.cache, acc.lookups + found.lookups)

RECURSIVE ClosestLoop(_, _, _, _, _, _, _, _, _)
\* lines 673-692 and 738-757: the loop over the sources from the i-th on;
\* acc carries the map built so far, the cache and the lookups made
ClosestLoop(acc, sources, opponents, i, ranges, tiled, trav, caching, field) ==
  IF i > Len(sources) THEN acc
  ELSE ClosestLoop(
         ClosestEntry(acc, sources[i],
                      findClosestTarget(sources[i].hex, HexesOf(opponents),
                                        RangeOf(sources[i], ranges), tiled, trav,
                                        caching, acc.cache),
                      field),
         sources, opponents, i + 1, ranges, tiled, trav, caching, field)

\* a map that is returned without being cached
StoreNoEnemyMap(built, cacheKey, cachingEnabled) == built

\* lines 694-698: the built map is cached when caching is enabled
StoreEnemyMap(built, cacheKey, cachingEnabled) ==
  IF cachingEnabled
    THEN [built EXCEPT !.cache.closestEnemyCache =
            MemoSet(@, cacheKey, built.result, ClosestEnemyCacheCapacity)]
    ELSE built

\* lines 641-700
getClosestEnemyMap(tilesWithCharacters, characterRanges, cachingEnabled, supplied, board, c) ==
  LET cacheKey == generateGridCacheKey(tilesWithCharacters, characterRanges)
  IN  IF cachingEnabled /\ MemoHas(c.closestEnemyCache, cacheKey)
        THEN Outcome(MemoValue(c.closestEnemyCache, cacheKey),
                     [c EXCEPT !.closestEnemyCache = MemoTouch(@, cacheKey)], 0)
        ELSE StoreEnemyMap(
               ClosestLoop(Outcome(<<>>, c, 0),
                           TeamTiles(tilesWithCharacters, "ALLY"),
                           TeamTiles(tilesWithCharacters, "ENEMY"), 1,
                           characterRanges,
                           LookupTiled(tilesWithCharacters, supplied, board),
                           LookupTraversable(tilesWithCharacters, supplied, board),
                           cachingEnabled, "enemyHexId"),
               cacheKey, cachingEnabled)

\* a store that puts the ally map into the closest-enemy cache
StoreAllyMapAsEnemyMap(built, cacheKey, cachingEnabled) ==
  IF cachingEnabled
    THEN [built EXCEPT !.cache.closestEnemyCache =
            MemoSet(@, cacheKey, built.result, ClosestEnemyCacheCapacity)]
    ELSE built

\* lines 759-763: the built map is cached when caching is enabled
StoreAllyMap(built, cacheKey, cachingEnabled) ==
  IF cachingEnabled
    THEN [built EXCEPT !.cache.closestAllyCache =
            MemoSet(@, cacheKey, built.result, ClosestAllyCacheCapacity)]
    ELSE built

\* lines 706-765
getClosestAllyMap(tilesWithCharacters, characterRanges, cachingEnabled, supplied, board, c) ==
  LET cacheKey == generateGridCacheKey(tilesWithCharacters, characterRanges)
  IN  IF cachingEnabled /\ MemoHas(c.closestAllyCache, cacheKey)
        THEN Outcome(MemoValue(c.closestAllyCache, cacheKey),
                     [c EXCEPT !.closestAllyCache = MemoTouch(@, cacheKey)], 0)
        ELSE StoreAllyMap(
               ClosestLoop(Outcome(<<>>, c, 0),
                           TeamTiles(tilesWithCharacters, "ENEMY"),
                           TeamTiles(tilesWithCharacters, "ALLY"), 1,
                           characterRanges,
                           LookupTiled(tilesWithCharacters, supplied, board),
                           LookupTraversable(tilesWithCharacters, supplied, board),
                           cachingEnabled, "allyHexId"),
               cacheKey, cachingEnabled)

(***************************************************************************)
(* Boards of the A* runs.                                                  *)
(***************************************************************************)
\* the compact board of the A* runs: a rhombus of 4 x 3 hexes
Rhombus == (0..3) \X (0..2)

\* the hexes the checked A* runs start from: an acute corner, an inner hex
\* and an obtuse corner of the rhombus
Starts == {<<0, 0>>, <<1, 1>>, <<3, 0>>}

\* the boards over region whose hexes are traversable tiles but for at most
\* k of them, which have no tile or a blocked one
RECURSIVE SubsetsUpTo(_, _)
\* the subsets of region of at most k hexes
SubsetsUpTo(region, k) ==
  IF k = 0 THEN {{}}
  ELSE LET smaller == SubsetsUpTo(region, k - 1)
       IN  smaller \cup {S \cup {h} : S \in smaller, h \in region}

BoardsOver(region, k) ==
  {[h \in region |-> IF h \in DOMAIN kinds THEN kinds[h] ELSE "DEFAULT"] :
     kinds \in UNION {[S -> {"BLOCKED", NoTile}] : S \in SubsetsUpTo(region, k)}}

\* the lists of at most n hexes of region
ListsOver(region, n) == UNION {[1..k -> region] : k \in 0..n}

Idle == [status |-> "idle"]

(***************************************************************************)
(* SpecPath: one findPath call, an iteration of its loop per step.         *)
(***************************************************************************)
InitPath ==
  /\ drag = Idle
  /\ tiles \in BoardsOver(Rhombus, MaxObstacles)
  /\ \E start \in Starts, goal \in Rhombus :
       astar = AStarStart(start, goal, Tiled(tiles), Traversable(tiles))
  /\ bfs = Idle
  /\ cache = Idle
  /\ call = Idle

\* lines 159-217 for a dequeued hex other than the goal
AStarExpand ==
  /\ astar.status = "running"
  /\ \E e \in MinEntries(astar.open) :
       /\ e.item # astar.goal
       /\ astar' = AStarIteration(astar, e)
  /\ UNCHANGED <<tiles, bfs, cache, call, drag>>

\* lines 159-172: the goal is dequeued
AStarReachGoal ==
  /\ astar.status = "running"
  /\ \E e \in MinEntries(astar.open) :
       /\ e.item = astar.goal
       /\ astar' = AStarIteration(astar, e)
  /\ UNCHANGED <<tiles, bfs, cache, call, drag>>

\* lines 158, 221: the open set is empty
AStarExhausted ==
  /\ astar.status = "running"
  /\ astar.open = {}
  /\ astar' = AStarGiveUp(astar)
  /\ UNCHANGED <<tiles, bfs, cache, call, drag>>

\* lines 233-234: findPathDistance returns once its findPath call has
ReturnPathDistance ==
  /\ astar.status = "done"
  /\ call = Idle
  /\ call' = [op |-> "findPathDistance", result |-> PathDistance(astar)]
  /\ UNCHANGED <<tiles, astar, bfs, cache, drag>>

NextPath == AStarExpand \/ AStarReachGoal \/ AStarExhausted \/ ReturnPathDistance

SpecPath == InitPath /\ [][NextPath]_vars

(***************************************************************************)
(* SpecRanged: one calculateRangedMovementDistance call, a layer per step. *)
(***************************************************************************)
Corridor == (0..CorridorEnd) \X {0}

\* ranges of the ranged units of the model
Ranges == {2, 3}

InitRanged ==
  /\ drag = Idle
  /\ \/ /\ tiles \in BoardsOver(Rhombus, MaxRangedObstacles)
        /\ \E start \in Starts, targets \in ListsOver(Rhombus, MaxTargets),
              range \in Ranges :
             bfs = RangedCall(start, targets, range,
                              Tiled(tiles), Traversable(tiles))
     \/ /\ tiles \in BoardsOver(Corridor, MaxRangedObstacles)
        /\ \E start \in {<<0, 0>>, <<2, 0>>}, target \in Corridor,
              range \in Ranges :
             bfs = RangedCall(start, <<target>>, range,
                              Tiled(tiles), Traversable(tiles))
  /\ astar = Idle
  /\ cache = Idle
  /\ call = Idle

\* lines 312-334
RangedEnter ==
  /\ bfs.status = "entry"
  /\ bfs' = RangedEntry(bfs)
  /\ UNCHANGED <<tiles, astar, cache, call, drag>>

\* lines 336-382: one layer
RangedProcessLayer ==
  /\ bfs.status = "looping"
  /\ RangedContinues(bfs)
  /\ bfs' = RangedLayer(bfs)
  /\ UNCHANGED <<tiles, astar, cache, call, drag>>

\* lines 336, 384: the loop ends
RangedExhausted ==
  /\ bfs.status = "looping"
  /\ ~RangedContinues(bfs)
  /\ bfs' = RangedGiveUp(bfs)
  /\ UNCHANGED <<tiles, astar, cache, call, drag>>

NextRanged == RangedEnter \/ RangedProcessLayer \/ RangedExhausted

SpecRanged == InitRanged /\ [][NextRanged]_vars

(***************************************************************************)
(* SpecTerminates: a caller runs findPath and then                         *)
(* calculateRangedMovementDistance for the same start and goal, each loop  *)
(* iteration being a step.  Both loops run synchronously to their return,  *)
(* so a step that can be taken is taken: weak fairness of the steps.       *)
(***************************************************************************)
\* a board small enough for every order of expansion to be followed
Patch == (0..2) \X (0..1)

\* ranges of the searching unit
TerminationRanges == {1, 2}

InitTerminates ==
  /\ drag = Idle
  /\ \/ /\ tiles \in BoardsOver(Patch, MaxRangedObstacles)
        /\ \E goal \in Patch, range \in TerminationRanges :
             /\ astar = AStarStart(<<0, 0>>, goal, Tiled(tiles), Traversable(tiles))
             /\ bfs = RangedCall(<<0, 0>>, <<goal>>, range,
                                 Tiled(tiles), Traversable(tiles))
     \/ /\ tiles \in BoardsOver(Corridor, MaxRangedObstacles)
        /\ \E range \in TerminationRanges :
             /\ astar = AStarStart(<<0, 0>>, <<CorridorEnd, 0>>,
                                   Tiled(tiles), Traversable(tiles))
             /\ bfs = RangedCall(<<0, 0>>, << <<CorridorEnd, 0>> >>, range,
                                 Tiled(tiles), Traversable(tiles))
  /\ cache = Idle
  /\ call = Idle

\* lines 312-334, once findPath has returned
RangedEnterNext ==
  /\ astar.status = "done"
  /\ RangedEnter

\* lines 336-382: one layer, once findPath has returned
RangedLayerNext ==
  /\ astar.status = "done"
  /\ RangedProcessLayer

\* lines 336, 384: the loop ends, once findPath has returned
RangedExhaustedNext ==
  /\ astar.status = "done"
  /\ RangedExhausted

NextTerminates ==
  \/ AStarExpand
  \/ AStarReachGoal
  \/ AStarExhausted
  \/ RangedEnterNext
  \/ RangedLayerNext
  \/ RangedExhaustedNext

SpecTerminates ==
  InitTerminates /\ [][NextTerminates]_vars /\ WF_vars(NextTerminates)

(***************************************************************************)
(* Spec: distance and target queries that share one PathfindingCache,      *)
(* the map being edited between them.                                      *)
(***************************************************************************)
\* hexes a map edit blocks or frees
ObstacleSites == {<<1, 0>>, <<0, 1>>}

\* hexes the queried units stand on
Sources == {<<0, 0>>, <<1, 1>>}

\* hexes the queried targets stand on
Goals == {<<3, 0>>, <<0, 2>>}

\* ranges of the queries
QueryRanges == {1, 2}

Init ==
  /\ drag = Idle
  /\ tiles = [h \in Rhombus |-> "DEFAULT"]
  /\ cache = EmptyCache
  /\ call = [op |-> "none", n |-> 0]
  /\ astar = Idle
  /\ bfs = Idle

\* the map editor blocks or frees a hex
EditTile ==
  /\ call.n < MaxCalls
  /\ \E h \in ObstacleSites :
       tiles' = [tiles EXCEPT ![h] = IF @ = "DEFAULT" THEN "BLOCKED" ELSE "DEFAULT"]
  /\ UNCHANGED <<astar, bfs, cache, call, drag>>

\* a caller runs calculateEffectiveDistance with defaultCanTraverse
CallEffectiveDistance ==
  /\ call.n < MaxCalls
  /\ \E start \in Sources, goal \in Goals \cup Sources, range \in QueryRanges,
        cachingEnabled \in BOOLEAN :
       \E out \in {calculateEffectiveDistance(start, goal, range, Tiled(tiles),
                      Traversable(tiles), cachingEnabled, cache)},
          plain \in {calculateEffectiveDistance(start, goal, range, Tiled(tiles),
                      Traversable(tiles), FALSE, cache)} :
           /\ cache' = out.cache
           /\ call' = [op |-> "calculateEffectiveDistance", n |-> call.n + 1,
                       start |-> start, goal |-> goal, range |-> range,
                       board |-> tiles, cachingEnabled |-> cachingEnabled,
                       result |-> out.result, lookups |-> out.lookups,
                       uncached |-> plain.result, before |-> cache]
  /\ UNCHANGED <<tiles, astar, bfs, drag>>

\* a caller runs findClosestTarget with defaultCanTraverse
CallFindClosestTarget ==
  /\ call.n < MaxCalls
  /\ \E source \in Sources, targets \in ListsOver(Goals, MaxTargets),
        range \in QueryRanges, cachingEnabled \in BOOLEAN :
       \E out \in {findClosestTarget(source, targets, range, Tiled(tiles),
                      Traversable(tiles), cachingEnabled, cache)},
          plain \in {findClosestTarget(source, targets, range, Tiled(tiles),
                      Traversable(tiles), FALSE, cache)} :
           /\ cache' = out.cache
           /\ call' = [op |-> "findClosestTarget", n |-> call.n + 1,
                       start |-> source, targets |-> targets, range |-> range,
                       board |-> tiles, cachingEnabled |-> cachingEnabled,
                       result |-> out.result, lookups |-> out.lookups,
                       uncached |-> plain.result, before |-> cache]
  /\ UNCHANGED <<tiles, astar, bfs, drag>>

Next == EditTile \/ CallEffectiveDistance \/ CallFindClosestTarget

Spec == Init /\ [][Next]_vars

(***************************************************************************)
(* SpecTargets: target selection from the corner of the board.  A caller   *)
(* selects a target without caching; the same selection is then made with  *)
(* caching enabled and repeated without, the map being edited in between.  *)
(* A ranged search may be run on its own instead.                          *)
(***************************************************************************)
\* the hex of the selecting unit
Corner == <<0, 0>>

\* hexes the candidate targets stand on
TargetPool == {<<0, 1>>, <<0, 2>>, <<1, 1>>, <<2, 0>>, <<3, 0>>}

\* the lists of at most MaxTargets + 1 different hexes of the pool
TargetLists ==
  {l \in ListsOver(TargetPool, MaxTargets + 1) :
     \A i, j \in 1..Len(l) : i # j => l[i] # l[j]}

InitTargets ==
  /\ drag = Idle
  /\ tiles = [h \in Rhombus |-> "DEFAULT"]
  /\ cache = EmptyCache
  /\ call = [op |-> "none", n |-> 0]
  /\ astar = Idle
  /\ bfs = Idle

\* the map editor blocks or frees a hex next to the corner
EditNearCorner ==
  /\ bfs = Idle
  /\ call.n \in {0, 1, 2}
  /\ \E h \in ObstacleSites :
       tiles' = [tiles EXCEPT ![h] = IF @ = "DEFAULT" THEN "BLOCKED" ELSE "DEFAULT"]
  /\ UNCHANGED <<astar, bfs, cache, call, drag>>

\* a caller runs findClosestTarget with caching disabled
SelectTarget ==
  /\ bfs = Idle
  /\ call.n = 0
  /\ \E targets \in TargetLists, range \in QueryRanges :
       \E out \in {findClosestTarget(Corner, targets, range, Tiled(tiles),
                      Traversable(tiles), FALSE, cache)} :
         /\ cache' = out.cache
         /\ call' = [op |-> "findClosestTarget", n |-> 1,
                     start |-> Corner, targets |-> targets, range |-> range,
                     board |-> tiles, cachingEnabled |-> FALSE,
                     result |-> out.result, lookups |-> out.lookups,
                     uncached |-> out.result]
  /\ UNCHANGED <<tiles, astar, bfs, drag>>

\* the same selection is made with caching enabled
SelectCached ==
  /\ call.n = 1
  /\ \E out \in {findClosestTarget(call.start, call.targets, call.range,
                    Tiled(tiles), Traversable(tiles), TRUE, cache)} :
       /\ cache' = out.cache
       /\ call' = [call EXCEPT !.n = 2]
  /\ UNCHANGED <<tiles, astar, bfs, drag>>

\* the first caller repeats the selection, caching disabled
SelectAgain ==
  /\ call.n = 2
  /\ \E out \in {findClosestTarget(call.start, call.targets, call.range,
                    Tiled(tiles), Traversable(tiles), FALSE, cache)} :
       /\ cache' = out.cache
       /\ call' = [op |-> "findClosestTarget", n |-> 3,
                   start |-> call.start, targets |-> call.targets,
                   range |-> call.range, board |-> call.board,
                   cachingEnabled |-> FALSE, result |-> call.result,
                   lookups |-> call.lookups, uncached |-> call.uncached,
                   again |-> out.result, againBoard |-> tiles]
  /\ UNCHANGED <<tiles, astar, bfs, drag>>

\* a caller runs calculateRangedMovementDistance on its own
SearchRanged ==
  /\ bfs = Idle
  /\ call.n = 0
  /\ \E targets \in TargetLists, range \in QueryRanges :
       bfs' = calculateRangedMovementDistance(Corner, targets, range,
                Tiled(tiles), Traversable(tiles))
  /\ UNCHANGED <<tiles, astar, cache, call, drag>>

NextTargets ==
  EditNearCorner \/ SelectTarget \/ SelectCached \/ SelectAgain \/ SearchRanged

SpecTargets == InitTargets /\ [][NextTargets]_vars

(***************************************************************************)
(* SpecEffective: on a board with obstacles the moves towards one goal are *)
(* measured by calculateEffectiveDistance and then, with the same          *)
(* arguments, by calculateRangedMovementDistance.                          *)
(***************************************************************************)
\* ranges of the measurements
EffectiveRanges == {1, 2, 3}

InitEffective ==
  /\ drag = Idle
  /\ tiles \in BoardsOver(Rhombus, MaxObstacles)
  /\ cache = EmptyCache
  /\ call = [op |-> "none", n |-> 0]
  /\ astar = Idle
  /\ bfs = Idle

\* a caller runs calculateEffectiveDistance with defaultCanTraverse
MeasureEffective ==
  /\ call.n = 0
  /\ \E start \in Starts, goal \in Rhombus, range \in EffectiveRanges :
       \E out \in {calculateEffectiveDistance(start, goal, range, Tiled(tiles),
                      Traversable(tiles), FALSE, cache)} :
         /\ cache' = out.cache
         /\ call' = [op |-> "calculateEffectiveDistance", n |-> 1,
                     start |-> start, goal |-> goal, range |-> range,
                     board |-> tiles, cachingEnabled |-> FALSE,
                     result |-> out.result, lookups |-> out.lookups,
                     uncached |-> out.result, before |-> cache]
  /\ UNCHANGED <<tiles, astar, bfs, drag>>

\* the caller runs calculateRangedMovementDistance for the same start, goal
\* and range
MeasureRanged ==
  /\ call.n = 1
  /\ bfs = Idle
  /\ bfs' = calculateRangedMovementDistance(call.start, <<call.goal>>,
               call.range, Tiled(tiles), Traversable(tiles))
  /\ UNCHANGED <<tiles, astar, cache, call, drag>>

NextEffective == MeasureEffective \/ MeasureRanged

SpecEffective == InitEffective /\ [][NextEffective]_vars

(***************************************************************************)
(* SpecTies: one target selection, without caching, from a corner or from  *)
(* the middle of an edge of a board on which hexes around the source are   *)
(* blocked, targets included.                                              *)
(***************************************************************************)
\* hexes the selecting unit stands on
TieSources == {<<0, 0>>, <<2, 0>>}

\* hexes the candidate targets stand on
TiePool == {<<0, 0>>, <<0, 1>>, <<1, 1>>, <<3, 2>>, <<0, 2>>, <<1, 2>>}

\* hexes a map edit blocks or frees
TieSites == {<<0, 0>>, <<1, 0>>, <<0, 1>>, <<1, 1>>}

\* ranges of the selections
TieRanges == {1, 2, 3}

\* the lists of at most MaxTargets + 1 different hexes of the pool
TieLists ==
  {l \in ListsOver(TiePool, MaxTargets + 1) :
     \A i, j \in 1..Len(l) : i # j => l[i] # l[j]}

InitTies ==
  /\ drag = Idle
  /\ tiles = [h \in Rhombus |-> "DEFAULT"]
  /\ cache = EmptyCache
  /\ call = [op |-> "none", n |-> 0]
  /\ astar = Idle
  /\ bfs = Idle

\* the map editor blocks or frees a hex
EditTie ==
  /\ call.n = 0
  /\ \E h \in TieSites :
       tiles' = [tiles EXCEPT ![h] = IF @ = "DEFAULT" THEN "BLOCKED" ELSE "DEFAULT"]
  /\ UNCHANGED <<astar, bfs, cache, call, drag>>

\* a caller runs findClosestTarget with defaultCanTraverse, caching disabled
SelectTied ==
  /\ call.n = 0
  /\ \E source \in TieSources, targets \in TieLists, range \in TieRanges :
       \E out \in {findClosestTarget(source, targets, range, Tiled(tiles),
                      Traversable(tiles), FALSE, cache)} :
         /\ cache' = out.cache
         /\ call' = [op |-> "findClosestTarget", n |-> 1,
                     start |-> source, targets |-> targets, range |-> range,
                     board |-> tiles, cachingEnabled |-> FALSE,
                     result |-> out.result, lookups |-> out.lookups,
                     uncached |-> out.result, before |-> cache]
  /\ UNCHANGED <<tiles, astar, bfs, drag>>

NextTies == EditTie \/ SelectTied

SpecTies == InitTies /\ [][NextTies]_vars

(***************************************************************************)
(* SpecMaps: closest-enemy and closest-ally maps computed through one      *)
(* PathfindingCache while units come and go and the map is edited.         *)
(***************************************************************************)
\* the tiles with characters a list is made of
UnitPool ==
  {[hex |-> <<0, 0>>, team |-> "ALLY", character |-> "archer"],
   [hex |-> <<3, 0>>, team |-> "ENEMY", character |-> "knight"],
   [hex |-> <<0, 2>>, team |-> "ENEMY", character |-> NoCharacter]}

\* the lists of at most MaxUnits different tiles of the pool that are
\* empty or hold units of both teams
UnitLists ==
  {l \in ListsOver(UnitPool, MaxUnits) :
     /\ \A i, j \in 1..Len(l) : i # j => l[i] # l[j]
     /\ l # <<>> => \A team \in {"ALLY", "ENEMY"} :
                      \E i \in 1..Len(l) : l[i].team = team}

\* the characterRanges maps of the calls
RangeMaps == {("archer" :> 2) @@ ("knight" :> 1), ("knight" :> 1)}

InitMaps ==
  /\ drag = Idle
  /\ tiles = [h \in Rhombus |-> "DEFAULT"]
  /\ cache = EmptyCache
  /\ call = [op |-> "none", n |-> 0]
  /\ astar = Idle
  /\ bfs = Idle

CallClosestEnemyMap ==
  /\ call.n < MaxCalls
  /\ \E units \in UnitLists, ranges \in RangeMaps,
        cachingEnabled \in BOOLEAN, supplied \in BOOLEAN :
       \E out \in {getClosestEnemyMap(units, ranges, cachingEnabled, supplied,
                      tiles, cache)},
          plain \in {getClosestEnemyMap(units, ranges, FALSE, supplied, tiles, cache)} :
           /\ cache' = out.cache
           /\ call' = [op |-> "getClosestEnemyMap", n |-> call.n + 1,
                       units |-> units, ranges |-> ranges, supplied |-> supplied,
                       board |-> tiles, cachingEnabled |-> cachingEnabled,
                       result |-> out.result, lookups |-> out.lookups,
                       uncached |-> plain.result, before |-> cache]
  /\ UNCHANGED <<tiles, astar, bfs, drag>>

CallClosestAllyMap ==
  /\ call.n < MaxCalls
  /\ \E units \in UnitLists, ranges \in RangeMaps,
        cachingEnabled \in BOOLEAN, supplied \in BOOLEAN :
       \E out \in {getClosestAllyMap(units, ranges, cachingEnabled, supplied,
                      tiles, cache)},
          plain \in {getClosestAllyMap(units, ranges, FALSE, supplied, tiles, cache)} :
           /\ cache' = out.cache
           /\ call' = [op |-> "getClosestAllyMap", n |-> call.n + 1,
                       units |-> units, ranges |-> ranges, supplied |-> supplied,
                       board |-> tiles, cachingEnabled |-> cachingEnabled,
                       result |-> out.result, lookups |-> out.lookups,
                       uncached |-> plain.result, before |-> cache]
  /\ UNCHANGED <<tiles, astar, bfs, drag>>

NextMaps == EditTile \/ CallClosestEnemyMap \/ CallClosestAllyMap

SpecMaps == InitMaps /\ [][NextMaps]_vars

(***************************************************************************)
(* SpecOrder: a closest-target map is computed for a list of tiles and     *)
(* then, through the same cache, for the same tiles once more, in the same *)
(* or in another order.                                                    *)
(***************************************************************************)
\* the tiles with characters the reordered lists are made of
OrderPool ==
  {[hex |-> <<0, 0>>, team |-> "ALLY", character |-> "archer"],
   [hex |-> <<2, 1>>, team |-> "ALLY", character |-> NoCharacter],
   [hex |-> <<1, 1>>, team |-> "ENEMY", character |-> "knight"],
   [hex |-> <<2, 0>>, team |-> "ENEMY", character |-> NoCharacter]}

\* the lists of at most MaxUnits + 1 different tiles of the pool that hold
\* units of both teams
OrderLists ==
  {l \in ListsOver(OrderPool, MaxUnits + 1) :
     /\ \A i, j \in 1..Len(l) : i # j => l[i] # l[j]
     /\ \A team \in {"ALLY", "ENEMY"} : \E i \in 1..Len(l) : l[i].team = team}

\* the two exported map functions
MapOps == {"getClosestEnemyMap", "getClosestAllyMap"}

\* lines 641-700 and 706-765: the map function named op
ClosestMap(op, units, ranges, cachingEnabled, supplied, board, c) ==
  IF op = "getClosestEnemyMap"
    THEN getClosestEnemyMap(units, ranges, cachingEnabled, supplied, board, c)
    ELSE getClosestAllyMap(units, ranges, cachingEnabled, supplied, board, c)

InitOrder ==
  /\ drag = Idle
  /\ tiles = [h \in Rhombus |-> "DEFAULT"]
  /\ cache = EmptyCache
  /\ call = [op |-> "none", n |-> 0]
  /\ astar = Idle
  /\ bfs = Idle

\* a caller computes a map for a list of tiles
MapFirst ==
  /\ call.n = 0
  /\ \E op \in MapOps, units \in OrderLists, ranges \in RangeMaps,
        cachingEnabled \in BOOLEAN, supplied \in BOOLEAN :
       \E out \in {ClosestMap(op, units, ranges, cachingEnabled, supplied,
                      tiles, cache)} :
         /\ cache' = out.cache
         /\ call' = [op |-> op, n |-> 1, units |-> units, ranges |-> ranges,
                     supplied |-> supplied, board |-> tiles,
                     cachingEnabled |-> cachingEnabled, result |-> out.result,
                     lookups |-> out.lookups]
  /\ UNCHANGED <<tiles, astar, bfs, drag>>

\* the caller computes the map again for the same tiles, listed as before
\* or in another order
MapReordered ==
  /\ call.n = 1
  /\ \E other \in OrderLists :
       /\ {other[i] : i \in 1..Len(other)} =
            {call.units[i] : i \in 1..Len(call.units)}
       /\ \E out \in {ClosestMap(call.op, other, call.ranges,
                         call.cachingEnabled, call.supplied, tiles, cache)} :
            /\ cache' = out.cache
            /\ call' = [op |-> call.op, n |-> 2, units |-> call.units,
                        ranges |-> call.ranges, supplied |-> call.supplied,
                        board |-> call.board,
                        cachingEnabled |-> call.cachingEnabled,
                        result |-> call.result, lookups |-> call.lookups,
                        reordered |-> other, second |-> out.result,
                        secondLookups |-> out.lookups, between |-> cache]
  /\ UNCHANGED <<tiles, astar, bfs, drag>>

NextOrder == MapFirst \/ MapReordered

SpecOrder == InitOrder /\ [][NextOrder]_vars

(***************************************************************************)
(* SpecFrame: the seven queries called in any order through one            *)
(* PathfindingCache.  No query writes the path cache; its owner stores a   *)
(* path in it with setPath.                                                *)
(***************************************************************************)
InitFrame ==
  /\ drag = Idle
  /\ tiles = [h \in Rhombus |-> "DEFAULT"]
  /\ cache = EmptyCache
  /\ call = [op |-> "none", n |-> 0]
  /\ astar = Idle
  /\ bfs = Idle

\* the owner of the cache stores the path between two hexes
StorePath ==
  /\ cache.pathCache = <<>>
  /\ \E goal \in Goals :
       /\ cache' = setPath(cache,
                           generatePathCacheKey(getId(<<0, 0>>), getId(goal), 0),
                           findPath(<<0, 0>>, goal, Tiled(tiles),
                                    Traversable(tiles)).path)
       /\ call' = [op |-> "setPath", n |-> call.n, before |-> cache]
  /\ UNCHANGED <<tiles, astar, bfs, drag>>

\* a caller runs findPath with defaultCanTraverse
CallFindPath ==
  /\ call.n < MaxCalls
  /\ \E start \in Sources, goal \in Goals :
       call' = [op |-> "findPath", n |-> call.n + 1,
                result |-> findPath(start, goal, Tiled(tiles),
                                    Traversable(tiles)).path,
                before |-> cache]
  /\ UNCHANGED <<tiles, astar, bfs, cache, drag>>

\* a caller runs findPathDistance with defaultCanTraverse
CallFindPathDistance ==
  /\ call.n < MaxCalls
  /\ \E start \in Sources, goal \in Goals :
       call' = [op |-> "findPathDistance", n |-> call.n + 1,
                result |-> findPathDistance(start, goal, Tiled(tiles),
                                            Traversable(tiles)),
                before |-> cache]
  /\ UNCHANGED <<tiles, astar, bfs, cache, drag>>

\* a caller runs calculateRangedMovementDistance with defaultCanTraverse
CallRangedMovementDistance ==
  /\ call.n < MaxCalls
  /\ \E start \in Sources, targets \in ListsOver(Goals, MaxTargets),
        range \in QueryRanges :
       call' = [op |-> "calculateRangedMovementDistance", n |-> call.n + 1,
                result |-> calculateRangedMovementDistance(start, targets, range,
                             Tiled(tiles), Traversable(tiles)).result,
                before |-> cache]
  /\ UNCHANGED <<tiles, astar, bfs, cache, drag>>

NextFrame ==
  \/ StorePath
  \/ CallFindPath
  \/ CallFindPathDistance
  \/ CallRangedMovementDistance
  \/ CallEffectiveDistance
  \/ CallFindClosestTarget
  \/ CallClosestEnemyMap
  \/ CallClosestAllyMap

SpecFrame == InitFrame /\ [][NextFrame]_vars

(***************************************************************************)
(* useDragDrop: the drag state shared by all components.  The refs of the  *)
(* module are the fields of one record, next to whether the global         *)
(* listeners are registered and the opacity of the dragged element.        *)
(***************************************************************************)
\* the value of a ref that holds nothing
null == "null"

\* hoveredHexId holding no id; an id n is held as <<n>>
noHexId == <<>>

\* an optional argument that is not passed
undefined == "undefined"

\* lines 19-27: the refs as the module creates them
InitialDragState ==
  [isDragging |-> FALSE, draggedCharacter |-> null, draggedImageSrc |-> "",
   dragPreviewPosition |-> [x |-> 0, y |-> 0], dropHandled |-> FALSE,
   currentMousePosition |-> [x |-> 0, y |-> 0], hoveredHexId |-> noHexId,
   listening |-> FALSE, opacity |-> "1"]

\* lines 73-76
updateDragPosition(d, x, y) ==
  [d EXCEPT !.dragPreviewPosition = [x |-> x - 35, y |-> y - 35],
            !.currentMousePosition = [x |-> x, y |-> y]]

\* line 41: imageUrl || characterName
ImageOrName(imageUrl, characterName) ==
  IF imageUrl \in {undefined, ""} THEN characterName ELSE imageUrl

\* lines 63-65, 101-103: the style of the event target is set when the
\* target is an HTML element
Styled(d, event, opacity) ==
  IF event.targetIsElement THEN [d EXCEPT !.opacity = opacity] ELSE d

\* lines 31-70: startDrag
startDrag(d, event, character, characterName, imageUrl) ==
  IF ~event.dataTransfer THEN d
  ELSE Styled(updateDragPosition(
                [d EXCEPT !.isDragging = TRUE,
                          !.draggedCharacter = character,
                          !.draggedImageSrc = ImageOrName(imageUrl, characterName),
                          !.dropHandled = FALSE,
                          !.listening = TRUE],
                event.clientX, event.clientY),
              event, "0.5")

\* an end of drag that also clears the drop handled flag
endDragClearsHandled(d, event) ==
  Styled([d EXCEPT !.isDragging = FALSE, !.draggedCharacter = null,
                   !.draggedImageSrc = "", !.hoveredHexId = noHexId,
                   !.dropHandled = FALSE, !.listening = FALSE],
         event, "1")

\* lines 94-111: endDrag
endDrag(d, event) ==
  Styled([d EXCEPT !.isDragging = FALSE, !.draggedCharacter = null,
                   !.draggedImageSrc = "", !.hoveredHexId = noHexId,
                   !.listening = FALSE],
         event, "1")

\* lines 79-84
handleGlobalDragOver(d, event) ==
  IF d.isDragging THEN updateDragPosition(d, event.clientX, event.clientY) ELSE d

\* lines 87-91
handleGlobalDrag(d, event) ==
  IF d.isDragging /\ event.clientX # 0 /\ event.clientY # 0
    THEN updateDragPosition(d, event.clientX, event.clientY)
    ELSE d

\* lines 152-154
setHoveredHex(d, hexId) == [d EXCEPT !.hoveredHexId = hexId]

\* lines 157-159
setDropHandled(d, handled) == [d EXCEPT !.dropHandled = handled]

(***************************************************************************)
(* SpecDrag: components start and end drags, the browser delivers drag     *)
(* events while the listeners are registered, and the grid reports the     *)
(* hovered hex and handled drops.                                          *)
(***************************************************************************)
\* the drag events: whether they carry a dataTransfer, whether their target
\* is an HTML element, and the pointer position
DragEvents ==
  [dataTransfer : BOOLEAN, targetIsElement : BOOLEAN,
   clientX : {0, 40}, clientY : {0, 50}]

\* the characters of the selection, with their names
Dragged == {[character |-> "archer", characterName |-> "Archer"],
            [character |-> "knight", characterName |-> "Knight"]}

\* the imageUrl arguments
ImageUrls == {undefined, "", "archer.png"}

\* the hex ids position-based detection reports
HoveredIds == {noHexId, <<7>>}

InitDrag ==
  /\ drag = InitialDragState
  /\ call = [op |-> "none"]
  /\ tiles = Idle
  /\ astar = Idle
  /\ bfs = Idle
  /\ cache = Idle

StartDrag ==
  /\ \E event \in DragEvents, c \in Dragged, imageUrl \in ImageUrls :
       /\ drag' = startDrag(drag, event, c.character, c.characterName, imageUrl)
       /\ call' = [op |-> "startDrag", event |-> event, before |-> drag]
  /\ UNCHANGED <<tiles, astar, bfs, cache>>

EndDrag ==
  /\ \E event \in DragEvents :
       /\ drag' = endDrag(drag, event)
       /\ call' = [op |-> "endDrag", event |-> event, before |-> drag]
  /\ UNCHANGED <<tiles, astar, bfs, cache>>

\* the browser delivers a dragover event to the registered listener
GlobalDragOver ==
  /\ drag.listening
  /\ \E event \in DragEvents :
       /\ drag' = handleGlobalDragOver(drag, event)
       /\ call' = [op |-> "dragover", event |-> event, before |-> drag]
  /\ UNCHANGED <<tiles, astar, bfs, cache>>

\* the browser delivers a drag event to the registered listener
GlobalDrag ==
  /\ drag.listening
  /\ \E event \in DragEvents :
       /\ drag' = handleGlobalDrag(drag, event)
       /\ call' = [op |-> "drag", event |-> event, before |-> drag]
  /\ UNCHANGED <<tiles, astar, bfs, cache>>

SetHoveredHex ==
  /\ \E hexId \in HoveredIds :
       /\ drag' = setHoveredHex(drag, hexId)
       /\ call' = [op |-> "setHoveredHex", before |-> drag]
  /\ UNCHANGED <<tiles, astar, bfs, cache>>

SetDropHandled ==
  /\ \E handled \in BOOLEAN :
       /\ drag' = setDropHandled(drag, handled)
       /\ call' = [op |-> "setDropHandled", before |-> drag]
  /\ UNCHANGED <<tiles, astar, bfs, cache>>

NextDrag ==
  \/ StartDrag
  \/ EndDrag
  \/ GlobalDragOver
  \/ GlobalDrag
  \/ SetHoveredHex
  \/ SetDropHandled

SpecDrag == InitDrag /\ [][NextDrag]_vars

(***************************************************************************)
(* SpecRows: areHexesInSameDiagonalRow applied to two hex ids.             *)
(***************************************************************************)
\* the positive hex ids of the comparisons
HexIds == 1..MaxHexId

InitRows ==
  /\ drag = Idle
  /\ \E hexId1 \in HexIds, hexId2 \in HexIds :
       call = [op |-> "none", hexId1 |-> hexId1, hexId2 |-> hexId2]
  /\ tiles = Idle
  /\ astar = Idle
  /\ bfs = Idle
  /\ cache = Idle

\* the two ids are compared, in both orders
CompareRows ==
  /\ call.op = "none"
  /\ call' = [op |-> "areHexesInSameDiagonalRow",
              hexId1 |-> call.hexId1, hexId2 |-> call.hexId2,
              result |-> areHexesInSameDiagonalRow(call.hexId1, call.hexId2),
              swapped |-> areHexesInSameDiagonalRow(call.hexId2, call.hexId1)]
  /\ UNCHANGED <<tiles, astar, bfs, cache, drag>>

NextRows == CompareRows

SpecRows == InitRows /\ [][NextRows]_vars

(***************************************************************************)
(* Reference notions the properties are stated with.                       *)
(***************************************************************************)
AllNeighbors(h) == {Neighbor(h, d) : d \in 0..5}

\* the length of a walk that does not exist
Unreachable == Infinity

RECURSIVE WalkLayers(_, _, _, _, _)
\* length of the shortest walk from the frontier into goals that only
\* enters hexes of pass, the frontier being k steps from the start
WalkLayers(frontier, seen, goals, pass, k) ==
  IF frontier \cap goals # {} THEN k
  ELSE LET next == {n \in UNION {AllNeighbors(h) : h \in frontier} :
                      n \in pass /\ n \notin seen}
       IN  IF next = {} THEN Unreachable
           ELSE WalkLayers(next, seen \cup next, goals, pass, k + 1)

\* steps of the shortest start-to-goal walk entering only passable hexes
ShortestWalk(start, goal, pass) == WalkLayers({start}, {start}, {goal}, pass, 0)

PathDone == astar.status = "done"

PathSteps == Len(astar.path) - 1

PathPass == astar.tiled \cap astar.trav

(***************************************************************************)
(* Properties of findPath (SpecPath).                                      *)
(***************************************************************************)
\* C1: a returned path runs from start to goal, consecutive hexes are at
\* hex distance 1, and every hex after the first has a tile the predicate
\* accepts.
C1_PathWellFormed ==
  (PathDone /\ astar.found) =>
    /\ Len(astar.path) >= 1
    /\ astar.path[1] = astar.start
    /\ astar.path[Len(astar.path)] = astar.goal
    /\ \A i \in 1..(Len(astar.path) - 1) :
         Distance(astar.path[i], astar.path[i + 1]) = 1
    /\ \A i \in 2..Len(astar.path) :
         astar.path[i] \in astar.tiled /\ astar.path[i] \in astar.trav

\* a path of three or more steps that had to go around an obstacle
C1_Witness ==
  /\ PathDone /\ astar.found
  /\ PathSteps >= 3
  /\ PathSteps > Distance(astar.start, astar.goal)

\* C2: the returned path has the least number of steps of all start-to-goal
\* walks that only enter traversable tiles.
C2_PathShortest ==
  (PathDone /\ astar.found) =>
    PathSteps = ShortestWalk(astar.start, astar.goal, PathPass)

\* a shortest path found by a run that relaxed a known node
C2_Witness ==
  /\ PathDone /\ astar.found
  /\ astar.relaxed >= 1
  /\ PathSteps >= 3

\* the hexes other than a that lie on a shortest hex line from a to b
Between(a, b) ==
  {h \in DOMAIN tiles \ {a} : Distance(a, h) + Distance(h, b) = Distance(a, b)}

\* C3: the step count is at least the hex distance, and equal to it when no
\* obstacle intervenes: when the hexes between start and goal are
\* traversable tiles, as they are on a board all of whose hexes are.
C3_StepsVsDistance ==
  (PathDone /\ astar.found) =>
    /\ PathSteps >= Distance(astar.start, astar.goal)
    /\ (\A h \in Between(astar.start, astar.goal) : h \in PathPass) =>
         PathSteps = Distance(astar.start, astar.goal)
    /\ (\A h \in DOMAIN tiles : h \in PathPass) =>
         PathSteps = Distance(astar.start, astar.goal)

\* a path across the obstacle-free board between hexes 3 or more apart
C3_Witness ==
  /\ PathDone /\ astar.found
  /\ \A h \in DOMAIN tiles : h \in PathPass
  /\ PathSteps >= 3
  /\ PathSteps = Distance(astar.start, astar.goal)

\* C4: null is returned exactly when start and goal differ and no walk
\* through traversable tiles joins them; start = goal gives <<start>>
\* whatever tile start has.
C4_NullIffNoWalk ==
  PathDone =>
    /\ ~astar.found <=>
         (/\ astar.start # astar.goal
          /\ ShortestWalk(astar.start, astar.goal, PathPass) = Unreachable)
    /\ astar.start = astar.goal => astar.path = <<astar.start>>

\* null returned once the open set emptied after a search that expanded
\* several hexes
C4_Witness ==
  /\ PathDone /\ ~astar.found
  /\ Cardinality(astar.closed) >= 3
  /\ astar.goal \in PathPass

\* C18: findPathDistance is the number of hexes of the path of findPath
\* minus 1, 0 when start = goal, and null exactly when findPath returns
\* null.
C18_PathDistance ==
  (call # Idle /\ call.op = "findPathDistance") =>
    /\ call.result.found <=> astar.found
    /\ astar.found => call.result.steps = Len(astar.path) - 1
    /\ astar.start = astar.goal => call.result.found /\ call.result.steps = 0
    /\ call.result =
         findPathDistance(astar.start, astar.goal, astar.tiled, astar.trav)

\* the distance of a path of 3 or more steps around an obstacle
C18_Witness ==
  /\ call # Idle /\ call.op = "findPathDistance"
  /\ call.result.found /\ call.result.steps >= 3
  /\ call.result.steps > Distance(astar.start, astar.goal)

\* the hexes that have an entry in the open set
OpenHexes == {e.item : e \in astar.open}

\* C31: within one findPath call each hex is enqueued at most once and
\* dequeued at most once: a closed hex is never in the open set again, and
\* a known hex that is relaxed keeps a single entry, at its new priority.
C31_ExpandedOnce ==
  /\ \A h \in DOMAIN astar.enqueues : astar.enqueues[h] <= 1
  /\ \A h \in DOMAIN astar.dequeues : astar.dequeues[h] <= 1
  /\ astar.closed \cap OpenHexes = {}
  /\ \A a, b \in astar.open : a.item = b.item => a = b
  /\ \A e \in astar.open : e.priority = astar.nodes[e.item].f
  /\ astar.status = "running" => DOMAIN astar.nodes = astar.closed \cup OpenHexes

\* a run that relaxed a known hex, closed several hexes and still has
\* hexes waiting in the open set
C31_Witness ==
  /\ astar.relaxed >= 1
  /\ Cardinality(astar.closed) >= 3
  /\ Cardinality(astar.open) >= 2
  /\ \E h \in astar.closed : \E d \in 0..5 : Neighbor(h, d) \in OpenHexes

(***************************************************************************)
(* Properties of calculateRangedMovementDistance (SpecRanged).             *)
(***************************************************************************)
RangedDone == bfs.status = "done"

\* hexes from which some target is within range
Striking == {h \in DOMAIN tiles \cup {bfs.start} :
               \E i \in 1..Len(bfs.targets) :
                 Distance(h, bfs.targets[i]) <= bfs.range}

\* least number of moves over traversable tiles that brings start within
\* range of a target
MovesNeeded ==
  WalkLayers({bfs.start}, {bfs.start}, Striking, bfs.tiled \cap bfs.trav, 0)

\* C9 as stated: for targets that cannot be brought into range,
\* canReach = false is reported only after all 20 layers have been
\* processed.
C9_OnlyAfterAllLayers ==
  (RangedDone /\ ~bfs.result.canReach /\ bfs.targets # <<>>) =>
    bfs.layers = MaxLayers

\* C9, amended: canReach = false is reported only when the target list is
\* empty, when the frontier has run empty, or when 20 layers have been
\* processed; never with a non-empty frontier after fewer layers.
C9_OnlyWhenExhausted ==
  (RangedDone /\ ~bfs.result.canReach) =>
    \/ bfs.targets = <<>> /\ bfs.layers = 0
    \/ bfs.currentQueue = <<>> /\ bfs.layers <= MaxLayers
    \/ bfs.layers = MaxLayers

\* unreachable reported with the frontier empty after fewer than 20 layers
C9_Witness ==
  /\ RangedDone /\ ~bfs.result.canReach
  /\ bfs.targets # <<>>
  /\ bfs.currentQueue = <<>>
  /\ bfs.layers >= 1 /\ bfs.layers < MaxLayers

\* C10: a finite movementDistance is at most 20; a target first in range
\* after exactly 20 moves is reported with movementDistance 20, one that
\* needs 21 or more moves as unreachable.
C10_LayerCap ==
  RangedDone =>
    /\ bfs.result.canReach => bfs.result.movementDistance <= 20
    /\ MovesNeeded = 20 =>
         bfs.result.canReach /\ bfs.result.movementDistance = 20
    /\ MovesNeeded >= 21 =>
         /\ ~bfs.result.canReach
         /\ bfs.result.movementDistance = Infinity
         /\ bfs.result.reachableTargets = <<>>

\* a target reported reachable with movementDistance 20
C10_Witness ==
  /\ RangedDone /\ bfs.result.canReach
  /\ bfs.result.movementDistance = 20
  /\ MovesNeeded = 20

\* C11: with a target within range of start, the call returns
\* movementDistance 0, canReach true and exactly the input targets within
\* range, in input order, and expands no neighbor.
C11_ImmediateTargets ==
  (RangedDone /\ \E i \in 1..Len(bfs.targets) :
                   Distance(bfs.start, bfs.targets[i]) <= bfs.range) =>
    /\ bfs.result.movementDistance = 0
    /\ bfs.result.canReach
    /\ bfs.result.reachableTargets =
         SelectSeq(bfs.targets, LAMBDA t : Distance(bfs.start, t) <= bfs.range)
    /\ bfs.lookups = 0 /\ bfs.layers = 0 /\ bfs.pushes = <<>>

\* two different targets within range of start, both returned
C11_Witness ==
  /\ RangedDone /\ bfs.result.movementDistance = 0
  /\ Len(bfs.targets) = 2 /\ bfs.targets[1] # bfs.targets[2]
  /\ bfs.result.reachableTargets = bfs.targets

RECURSIVE WalkRing(_, _, _, _)
\* the hexes whose shortest walk from the start is k steps longer than that
\* of the frontier, walks only entering hexes of pass
WalkRing(frontier, seen, pass, k) ==
  IF k = 0 THEN frontier
  ELSE LET next == {n \in UNION {AllNeighbors(h) : h \in frontier} :
                      n \in pass /\ n \notin seen}
       IN  WalkRing(next, seen \cup next, pass, k - 1)

\* the targets within range of a hex that is exactly k moves from start
TargetsStruckAfter(k) ==
  {bfs.targets[i] : i \in {j \in 1..Len(bfs.targets) :
     \E h \in WalkRing({bfs.start}, {bfs.start}, bfs.tiled \cap bfs.trav, k) :
       Distance(h, bfs.targets[j]) <= bfs.range}}

\* C12: with no target in range at layer 0 and a reachable result, the
\* movementDistance k is the least number of moves (1..20) that brings start
\* within range of a target, and reachableTargets holds, once each, exactly
\* the targets within range of a hex that is k moves from start.
C12_LeastMoves ==
  (RangedDone /\ bfs.result.canReach /\ bfs.result.movementDistance # 0) =>
    /\ bfs.result.movementDistance \in 1..MaxLayers
    /\ bfs.result.movementDistance = MovesNeeded
    /\ {bfs.result.reachableTargets[i] :
          i \in 1..Len(bfs.result.reachableTargets)}
         = TargetsStruckAfter(bfs.result.movementDistance)
    /\ \A i, j \in 1..Len(bfs.result.reachableTargets) :
         i # j => bfs.result.reachableTargets[i] # bfs.result.reachableTargets[j]

\* two targets come into range together after a detour around an obstacle
C12_Witness ==
  /\ RangedDone /\ bfs.result.canReach
  /\ bfs.result.movementDistance >= 2
  /\ Len(bfs.result.reachableTargets) = 2
  /\ \E h \in DOMAIN tiles : tiles[h] = "BLOCKED"

\* no hex occurs twice in the list
NoRepeats(hexes) == \A i, j \in 1..Len(hexes) : hexes[i] = hexes[j] => i = j

\* C32 as stated: reachableTargets never contains the same hex twice,
\* whatever the target list and whether the targets are found at layer 0
\* or at a later layer.
C32_NeverRepeated ==
  RangedDone => NoRepeats(bfs.result.reachableTargets)

\* C32: reachableTargets of a result of 1 or more moves never contains the
\* same hex twice, whatever the target list; a result of 0 moves lists the
\* targets within range of start as often as the target list does, so it
\* is free of repeats when the target list is.
C32_UniqueAfterMoving ==
  RangedDone =>
    /\ bfs.result.movementDistance # 0 => NoRepeats(bfs.result.reachableTargets)
    /\ bfs.result.movementDistance = 0 =>
         bfs.result.reachableTargets = InRange(bfs.start, bfs.targets, bfs.range)
    /\ NoRepeats(bfs.targets) => NoRepeats(bfs.result.reachableTargets)

\* a target listed twice comes into range after a move and is returned
\* once, the accumulation of the layer holding it more than once
C32_Witness ==
  /\ RangedDone /\ bfs.result.canReach
  /\ bfs.result.movementDistance >= 1
  /\ Len(bfs.targets) = 2 /\ bfs.targets[1] = bfs.targets[2]
  /\ bfs.result.reachableTargets = <<bfs.targets[1]>>
  /\ Len(bfs.reachableAtThisDistance) >= 2

(***************************************************************************)
(* Termination of the two searches (SpecTerminates).                       *)
(***************************************************************************)
\* no hex has entered a frontier twice: the start is in the first frontier
\* only, every other hex is pushed at most once
FrontiersDisjoint ==
  /\ bfs.start \notin DOMAIN bfs.pushes
  /\ \A h \in DOMAIN bfs.pushes : bfs.pushes[h] <= 1

\* C34: on a finite board findPath terminates, with a path or with null,
\* and calculateRangedMovementDistance terminates after at most 20 layers,
\* no hex being added to a frontier more than once.
C34_Terminates ==
  /\ (astar.status = "running") ~> (astar.status = "done")
  /\ (bfs.status # "done") ~> (bfs.status = "done")
  /\ [](bfs.layers <= MaxLayers /\ FrontiersDisjoint)
  /\ [](astar.status = "done" => (astar.found <=> astar.path # <<>>))

\* findPath has returned a path of 20 or more steps and the ranged search
\* has given up after all 20 layers, each with a hex pushed once
C34_Witness ==
  /\ astar.status = "done" /\ astar.found /\ Len(astar.path) > MaxLayers
  /\ bfs.status = "done" /\ ~bfs.result.canReach
  /\ bfs.layers = MaxLayers
  /\ Cardinality(DOMAIN bfs.pushes) >= MaxLayers

\* findPath has returned null after expanding several hexes and the ranged
\* search has ended on an empty frontier
C34_WitnessNull ==
  /\ astar.status = "done" /\ ~astar.found
  /\ Cardinality(astar.closed) >= 3
  /\ bfs.status = "done" /\ ~bfs.result.canReach
  /\ bfs.layers < MaxLayers

(***************************************************************************)
(* Properties of the cached distance and target queries (Spec).            *)
(***************************************************************************)
DistanceCall == call.op = "calculateEffectiveDistance"

TargetCall == call.op = "findClosestTarget"

\* hexes of the board of the last call that defaultCanTraverse lets through
CallPass == Traversable(call.board)

\* C5: a distance query with caching enabled returns what the same query
\* returns with caching disabled, whatever the calls that filled the cache.
C5_DistanceCacheTransparent ==
  ((DistanceCall \/ TargetCall) /\ call.cachingEnabled) =>
    call.result = call.uncached

\* C7: a goal within range costs no movement and no search.
C7_InRangeNoSearch ==
  (DistanceCall /\ Distance(call.start, call.goal) <= call.range) =>
    /\ call.result = DistanceResult(0, TRUE, Distance(call.start, call.goal))
    /\ call.lookups = 0

\* a goal at a distance equal to the range, start and goal being apart
C7_Witness ==
  /\ DistanceCall
  /\ call.start # call.goal
  /\ Distance(call.start, call.goal) = call.range
  /\ call.result.movementDistance = 0

\* C8: beyond the range and without caching, no path gives canReach false
\* and movementDistance infinity, a path of n steps gives canReach true and
\* movementDistance max(0, n - range).
C8_BeyondRange ==
  (DistanceCall /\ ~call.cachingEnabled
     /\ Distance(call.start, call.goal) > call.range) =>
    LET steps == ShortestWalk(call.start, call.goal, CallPass)
        direct == Distance(call.start, call.goal)
    IN  IF steps = Unreachable
          THEN call.result = DistanceResult(Infinity, FALSE, direct)
          ELSE call.result = DistanceResult(Max2(0, steps - call.range), TRUE, direct)

\* a goal beyond the range reached by a path around a blocked hex
C8_Witness ==
  /\ DistanceCall /\ ~call.cachingEnabled
  /\ Distance(call.start, call.goal) > call.range
  /\ call.result.canReach
  /\ ShortestWalk(call.start, call.goal, CallPass) > Distance(call.start, call.goal)
  /\ call.result.movementDistance >= 2

\* the key of the distance query of the last call
CallKey == <<getId(call.start), getId(call.goal), call.range>>

\* C28: with caching disabled calculateEffectiveDistance and
\* findClosestTarget leave the cache as it was, the four sizes of getStats
\* included; with caching enabled calculateEffectiveDistance stores its
\* result under (start id, goal id, range) on every miss, whether the goal
\* is in range, unreachable or reached by a path.
C28_CacheFrame ==
  /\ ((DistanceCall \/ TargetCall) /\ ~call.cachingEnabled) =>
       /\ getStats(cache) = getStats(call.before)
       /\ cache = call.before
  /\ (DistanceCall /\ call.cachingEnabled
        /\ ~MemoHas(call.before.effectiveDistanceCache, CallKey)) =>
       /\ MemoHas(cache.effectiveDistanceCache, CallKey)
       /\ MemoValue(cache.effectiveDistanceCache, CallKey) = call.result
       /\ call.result = call.uncached
       /\ getStats(cache).effectiveDistanceCacheSize =
            getStats(call.before).effectiveDistanceCacheSize + 1

\* a miss that found no path was stored next to the stored result of a
\* goal within range
C28_Witness ==
  /\ DistanceCall /\ call.cachingEnabled
  /\ ~MemoHas(call.before.effectiveDistanceCache, CallKey)
  /\ ~call.result.canReach
  /\ MemoValue(cache.effectiveDistanceCache, CallKey) = call.result
  /\ getStats(cache).effectiveDistanceCacheSize = 2
  /\ cache.effectiveDistanceCache[1].value.movementDistance = 0

(***************************************************************************)
(* SpecCache: one PathfindingCache is written and queried through its      *)
(* setters and getters until its caches overflow, and may be cleared once  *)
(* a cache has filled up.  A writer stores each                            *)
(* new key, the keys being 1, 2, 3, ..., in the caches it has chosen; call *)
(* keeps the cache before the last operation and, for every cache, the     *)
(* time each key was last set or hit.                                      *)
(***************************************************************************)
\* the caches a writer stores its keys in
KindChoices == {{kind} : kind \in CacheKinds} \cup {CacheKinds}

KeysOf(entries) == {entries[i].key : i \in 1..Len(entries)}

\* the largest capacity among the caches of kinds
LargestCapacity(kinds) ==
  CHOOSE n \in {CacheCapacity(kind) : kind \in kinds} :
    \A kind \in kinds : CacheCapacity(kind) <= n

\* the cache of kind has just been filled or has just overflowed
JustFilled(kind) ==
  /\ Len(cache[kind]) = CacheCapacity(kind)
  /\ call.n \in {CacheCapacity(kind), CacheCapacity(kind) + 1}

\* the time stamps after key was set or hit in the caches of kinds at time
\* clock
Stamp(used, kinds, key, clock) ==
  [kind \in CacheKinds |->
     IF kind \in kinds THEN (key :> clock) @@ used[kind] ELSE used[kind]]

InitCache ==
  /\ drag = Idle
  /\ tiles = [h \in Rhombus |-> "DEFAULT"]
  /\ cache = EmptyCache
  /\ call = [op |-> "none", n |-> 0, kinds |-> {}, touches |-> 0, clock |-> 0,
             used |-> [kind \in CacheKinds |-> <<>>], key |-> 0,
             wrote |-> {}, before |-> EmptyCache]
  /\ astar = Idle
  /\ bfs = Idle

\* the writer stores the next new key in its caches
CacheWrite ==
  /\ \E kinds \in KindChoices :
       /\ call.n = 0 \/ kinds = call.kinds
       /\ call.n < LargestCapacity(kinds) + Overflow
       /\ cache' = CacheSetAll(cache, kinds, call.n + 1, call.n + 1)
       /\ call' = [call EXCEPT !.op = "set", !.n = @ + 1, !.kinds = kinds,
                               !.clock = @ + 1, !.key = call.n + 1,
                               !.used = Stamp(@, kinds, call.n + 1, call.clock + 1),
                               !.wrote = kinds, !.before = cache]
  /\ UNCHANGED <<tiles, astar, bfs, drag>>

\* the oldest entry of a cache that is full is stored again
CacheRewrite ==
  /\ call.touches < MaxTouches
  /\ \E kind \in call.kinds :
       /\ JustFilled(kind)
       /\ cache' = CacheSetAll(cache, {kind}, Head(cache[kind]).key, call.n + 1)
       /\ call' = [call EXCEPT !.op = "set", !.touches = @ + 1,
                               !.clock = @ + 1, !.key = Head(cache[kind]).key,
                               !.used = Stamp(@, {kind}, Head(cache[kind]).key,
                                              call.clock + 1),
                               !.wrote = {kind}, !.before = cache]
  /\ UNCHANGED <<tiles, astar, bfs, drag>>

\* the oldest entry of a cache that is full is queried
CacheQueryHit ==
  /\ call.touches < MaxTouches
  /\ \E kind \in call.kinds :
       /\ JustFilled(kind)
       /\ cache' = CacheGet(cache, kind, Head(cache[kind]).key)
       /\ call' = [call EXCEPT !.op = "get", !.touches = @ + 1,
                               !.clock = @ + 1, !.key = Head(cache[kind]).key,
                               !.used = Stamp(@, {kind}, Head(cache[kind]).key,
                                              call.clock + 1),
                               !.wrote = {kind}, !.before = cache]
  /\ UNCHANGED <<tiles, astar, bfs, drag>>

\* the next key, which no write has stored yet, is queried in a cache that
\* is full
CacheQueryMiss ==
  /\ call.touches < MaxTouches
  /\ \E kind \in call.kinds :
       /\ JustFilled(kind)
       /\ cache' = CacheGet(cache, kind, call.n + 1)
       /\ call' = [call EXCEPT !.op = "get", !.touches = @ + 1,
                               !.clock = @ + 1, !.key = call.n + 1,
                               !.wrote = {kind}, !.before = cache]
  /\ UNCHANGED <<tiles, astar, bfs, drag>>

\* a caller clears all caches when one of them has filled up
CacheClearAll ==
  /\ call.touches < MaxTouches
  /\ \E kind \in call.kinds : JustFilled(kind)
  /\ cache' = clearPathfindingCache(cache)
  /\ call' = [call EXCEPT !.op = "clear", !.touches = @ + 1, !.clock = @ + 1,
                          !.wrote = {}, !.before = cache]
  /\ UNCHANGED <<tiles, astar, bfs, drag>>

\* a caller clears one cache when some cache has filled up
CacheClearOne ==
  /\ call.touches < MaxTouches
  /\ \E kind \in call.kinds : JustFilled(kind)
  /\ \E cacheType \in CacheTypes :
       /\ cache' = clearSpecificCache(cacheType, cache)
       /\ call' = [call EXCEPT !.op = cacheType, !.touches = @ + 1,
                               !.clock = @ + 1, !.wrote = {}, !.before = cache]
  /\ UNCHANGED <<tiles, astar, bfs, drag>>

NextCache ==
  \/ CacheWrite \/ CacheRewrite \/ CacheQueryHit \/ CacheQueryMiss
  \/ CacheClearAll \/ CacheClearOne

SpecCache == InitCache /\ [][NextCache]_vars

(***************************************************************************)
(* Properties of findClosestTarget (SpecTargets).                          *)
(***************************************************************************)
\* least number of moves over traversable tiles that brings the source of
\* the call within its range of target
MoveCost(target) ==
  WalkLayers({call.start}, {call.start},
             {h \in DOMAIN call.board \cup {call.start} :
                Distance(h, target) <= call.range},
             CallPass, 0)

\* the targets of the call, as a set
CallTargets == {call.targets[i] : i \in 1..Len(call.targets)}

\* the targets of the call at the least movement cost, none when no target
\* can be brought into range
Nearest ==
  {t \in CallTargets :
     /\ MoveCost(t) # Unreachable
     /\ \A u \in CallTargets : MoveCost(t) <= MoveCost(u)}

\* C13: on the obstacle-free board, with range 1 and a single target at hex
\* distance d >= 1, findClosestTarget returns the id of the target with
\* distance d - 1.
C13_SingleTargetOpenBoard ==
  (/\ TargetCall /\ call.range = 1 /\ Len(call.targets) = 1
   /\ \A h \in DOMAIN call.board : call.board[h] = "DEFAULT"
   /\ Distance(call.start, call.targets[1]) >= 1) =>
    call.uncached =
      TargetResult(getId(call.targets[1]),
                   Distance(call.start, call.targets[1]) - 1)

\* the only target is 3 hexes away and is returned with distance 2
C13_Witness ==
  /\ TargetCall /\ call.range = 1 /\ Len(call.targets) = 1
  /\ \A h \in DOMAIN call.board : call.board[h] = "DEFAULT"
  /\ Distance(call.start, call.targets[1]) = 3
  /\ call.uncached.found /\ call.uncached.distance = 2

\* C14: when exactly two targets are at the least movement cost and
\* exactly one of them has the q of the source, that one is chosen,
\* whatever the ids and the list order, in the melee and the ranged branch.
C14_VerticalPreferred ==
  TargetCall =>
    \A a, b \in CallTargets :
      (/\ Nearest = {a, b} /\ a # b
       /\ a[1] = call.start[1] /\ b[1] # call.start[1]) =>
        call.uncached.found /\ call.uncached.hexId = getId(a)

\* a melee tie the vertically aligned target wins although it has the
\* higher id and comes later in the list
C14_Witness ==
  /\ TargetCall /\ call.range = 1 /\ Len(call.targets) = 2
  /\ Nearest = CallTargets
  /\ call.targets[2][1] = call.start[1] /\ call.targets[1][1] # call.start[1]
  /\ getId(call.targets[2]) > getId(call.targets[1])
  /\ call.uncached.hexId = getId(call.targets[2])

\* C22: whatever the number of targets at the least movement cost and the
\* order of the list, when one of them has the q of the source the target
\* returned has the q of the source.
C22_AlignedAmongTied ==
  (TargetCall /\ \E t \in Nearest : t[1] = call.start[1]) =>
    /\ call.uncached.found
    /\ \E t \in CallTargets :
         getId(t) = call.uncached.hexId /\ t[1] = call.start[1]

\* three targets tied at the least cost of which only the last of the list
\* is aligned, and it is returned
C22_Witness ==
  /\ TargetCall /\ Len(call.targets) = 3 /\ Nearest = CallTargets
  /\ call.targets[1][1] # call.start[1] /\ call.targets[2][1] # call.start[1]
  /\ call.targets[3][1] = call.start[1]
  /\ call.uncached.hexId = getId(call.targets[3])

\* C15: a selection repeated with the same source, targets, range and
\* board, caching disabled, returns the same hexId and distance.
C15_RepeatedSelection ==
  (TargetCall /\ "again" \in DOMAIN call /\ call.againBoard = call.board) =>
    call.again = call.uncached

\* the selection repeated on the same board while the cache holds a
\* distance stored on another board
C15_Witness ==
  /\ TargetCall /\ "again" \in DOMAIN call /\ call.againBoard = call.board
  /\ call.range = 1 /\ Len(call.targets) = 1 /\ call.again.found
  /\ cache.effectiveDistanceCache # <<>>
  /\ cache.effectiveDistanceCache[1].value.movementDistance # call.again.distance

\* C17: no result is a value: the ranged search of an empty list returns
\* {infinity, false, []}, and findClosestTarget returns null for an empty
\* list and when no target can be brought into range.
C17_NoResultValues ==
  /\ (bfs # Idle /\ bfs.targets = <<>>) =>
       /\ bfs.status = "done"
       /\ bfs.result = RangedResult(Infinity, FALSE, <<>>)
  /\ (TargetCall /\ call.targets = <<>>) => call.uncached = NoTarget
  /\ (TargetCall /\ Nearest = {}) => call.uncached = NoTarget

\* null returned for targets that the enclosed source cannot get to
C17_Witness ==
  /\ TargetCall /\ call.targets # <<>>
  /\ \A t \in CallTargets : MoveCost(t) = Unreachable
  /\ call.uncached = NoTarget

\* C20 as stated: every reordering of the target list gives the same hexId.
C20_OrderIndependent ==
  TargetCall =>
    \A other \in TargetLists :
      {other[i] : i \in 1..Len(other)} = CallTargets =>
        findClosestTarget(call.start, other, call.range, Tiled(call.board),
                          Traversable(call.board), FALSE, EmptyCache).result.hexId
          = call.uncached.hexId

(***************************************************************************)
(* Properties of the two measures of movement (SpecEffective).             *)
(***************************************************************************)
\* both measurements were made and the tile of the goal is traversable
Measured ==
  /\ DistanceCall /\ bfs # Idle /\ bfs.status = "done"
  /\ call.goal \in Tiled(call.board) \cap Traversable(call.board)

\* C27 as stated: whenever the ranged search finds the goal within 20
\* moves, calculateEffectiveDistance reports the same number of moves.
C27_EffectiveIsRanged ==
  (Measured /\ bfs.result.canReach /\ bfs.result.movementDistance <= 20) =>
    call.result.movementDistance = bfs.result.movementDistance

\* the part of C27 that holds: the two measures agree for range 1, and for
\* any range the effective distance is never below the ranged one
C27_AgreesInMelee ==
  Measured =>
    /\ call.range = 1 =>
         /\ call.result.canReach = bfs.result.canReach
         /\ call.result.movementDistance = bfs.result.movementDistance
    /\ call.result.canReach =>
         /\ bfs.result.canReach
         /\ call.result.movementDistance >= bfs.result.movementDistance

\* the last call was a calculateEffectiveDistance call that has returned
EffectiveReturned ==
  "result" \in DOMAIN call /\ call.op = "calculateEffectiveDistance"

\* the calculateRangedMovementDistance call has returned
RangedReturned == bfs.status = "done"

\* canReach is false exactly when movementDistance is infinity, and a
\* reachable result counts a whole number of moves
DistanceWellFormed(result) ==
  /\ result.canReach \in BOOLEAN
  /\ ~result.canReach <=> result.movementDistance = Infinity
  /\ result.canReach => result.movementDistance \in 0..(Infinity - 1)

\* C33: every result of calculateEffectiveDistance and of
\* calculateRangedMovementDistance is well formed: canReach is false exactly
\* when movementDistance is infinity, a reachable result has an integer
\* movementDistance >= 0, and a ranged result is reachable exactly when
\* reachableTargets is non-empty, every reachable target being one of the
\* input targets.
C33_WellFormedResults ==
  /\ EffectiveReturned => DistanceWellFormed(call.result)
  /\ RangedReturned =>
       /\ DistanceWellFormed(bfs.result)
       /\ bfs.result.canReach <=> bfs.result.reachableTargets # <<>>
       /\ \A i \in 1..Len(bfs.result.reachableTargets) :
            \E j \in 1..Len(bfs.targets) :
              bfs.result.reachableTargets[i] = bfs.targets[j]

\* both measures have returned for a goal out of range: the path search
\* found no way to the goal while the ranged search reached it after moving
C33_Witness ==
  /\ EffectiveReturned /\ RangedReturned
  /\ ~call.result.canReach
  /\ bfs.result.canReach /\ bfs.result.movementDistance >= 1

\* both measures have returned unreachable
C33_WitnessUnreachable ==
  /\ EffectiveReturned /\ RangedReturned
  /\ ~call.result.canReach /\ ~bfs.result.canReach

(***************************************************************************)
(* Properties of the tie-break rules (SpecTies).                           *)
(***************************************************************************)
\* t has the q of the source of the call
Aligned(t) == t[1] = call.start[1]

\* the diagonal row of a hex id: the rows are 1-2, 3-5, 6-7, 8-10, 11-14
DiagonalRow(hexId) ==
  IF hexId <= 2 THEN 1 ELSE IF hexId <= 5 THEN 2 ELSE IF hexId <= 7 THEN 3
  ELSE IF hexId <= 10 THEN 4 ELSE 5

C24_NearerDirect ==
  TargetCall =>
    \A nearest \in {Nearest} : \A a, b \in nearest :
      (/\ nearest = {a, b} /\ a # b
       /\ ~Aligned(a) /\ ~Aligned(b)
       /\ DiagonalRow(getId(a)) # DiagonalRow(getId(b))
       /\ Distance(call.start, a) < Distance(call.start, b)) =>
        call.uncached.found /\ call.uncached.hexId = getId(a)

\* a melee tie made by a detour: the target that is nearer in hex distance
\* comes later in the list and is returned
C24_Witness ==
  /\ TargetCall /\ call.range = 1 /\ Len(call.targets) >= 2
  /\ Nearest = {call.targets[1], call.targets[2]}
  /\ ~Aligned(call.targets[1]) /\ ~Aligned(call.targets[2])
  /\ DiagonalRow(getId(call.targets[1])) # DiagonalRow(getId(call.targets[2]))
  /\ Distance(call.start, call.targets[2]) < Distance(call.start, call.targets[1])
  /\ call.uncached.hexId = getId(call.targets[2])

\* what calculateEffectiveDistance reports for target t of the call, the
\* cell of t counting as traversable
EffectiveTo(t) ==
  calculateEffectiveDistance(call.start, t, call.range, Tiled(call.board),
                             canTraverseToTarget(Traversable(call.board), t),
                             FALSE, EmptyCache).result

\* the targets of the call calculateEffectiveDistance reports reachable
MeleeReachable == {t \in CallTargets : EffectiveTo(t).canReach}

\* C25: in the melee branch the returned distance is the least
\* movementDistance over the targets calculateEffectiveDistance reports
\* reachable and the returned id is that of a target at that distance, so
\* no target that needs more moves is returned.
C25_MeleeMinimum ==
  (TargetCall /\ call.range = 1 /\ MeleeReachable # {}) =>
    /\ call.uncached.found
    /\ \A u \in MeleeReachable :
         call.uncached.distance <= EffectiveTo(u).movementDistance
    /\ \E t \in MeleeReachable :
         /\ getId(t) = call.uncached.hexId
         /\ EffectiveTo(t).movementDistance = call.uncached.distance

\* three reachable targets at three different costs, the list running from
\* the farthest to the nearest, which is returned
C25_Witness ==
  /\ TargetCall /\ call.range = 1 /\ Len(call.targets) = 3
  /\ MeleeReachable = CallTargets
  /\ EffectiveTo(call.targets[1]).movementDistance
       > EffectiveTo(call.targets[2]).movementDistance
  /\ EffectiveTo(call.targets[2]).movementDistance
       > EffectiveTo(call.targets[3]).movementDistance
  /\ call.uncached = TargetResult(getId(call.targets[3]),
                                  EffectiveTo(call.targets[3]).movementDistance)

\* C26: in the melee branch a target is reachable exactly when a walk over
\* tiles canTraverse accepts leads from the source to a hex next to it,
\* whether or not canTraverse accepts the tile of the target itself; the
\* rejected tiles of the other targets block the walk like any other.
C26_OwnCellTraversable ==
  (TargetCall /\ call.range = 1) =>
    /\ \A t \in CallTargets :
         /\ EffectiveTo(t).canReach <=> MoveCost(t) # Unreachable
         /\ EffectiveTo(t).canReach => EffectiveTo(t).movementDistance = MoveCost(t)
    /\ call.uncached.found <=> Nearest # {}
    /\ call.uncached.found =>
         \E t \in Nearest : /\ getId(t) = call.uncached.hexId
                             /\ MoveCost(t) = call.uncached.distance

\* the target returned stands on a blocked tile one move away, and another
\* target of the list, also on a blocked tile, is cut off by blocked tiles
C26_Witness ==
  /\ TargetCall /\ call.range = 1 /\ call.uncached.found
  /\ call.uncached.distance >= 1
  /\ \E t, u \in CallTargets :
       /\ getId(t) = call.uncached.hexId
       /\ call.board[t] = "BLOCKED" /\ call.board[u] = "BLOCKED"
       /\ t # u /\ ~EffectiveTo(u).canReach

(***************************************************************************)
(* Properties of the closest-target maps (SpecMaps).                       *)
(***************************************************************************)
MapCall == call.op \in {"getClosestEnemyMap", "getClosestAllyMap"}

\* C6: a closest-target map computed with caching enabled equals the map
\* the same call computes with caching disabled.
C6_MapCacheTransparent ==
  (MapCall /\ call.cachingEnabled) => call.result = call.uncached

\* what findClosestTarget returns for the source tile against the opponents
\* under the lookup of the call, the range being characterRanges[character]
\* or 1 without a character or an entry
ClosestOf(source, opponents) ==
  findClosestTarget(source.hex, HexesOf(opponents),
                    IF source.character = NoCharacter THEN 1
                    ELSE IF source.character \in DOMAIN call.ranges
                      THEN call.ranges[source.character]
                    ELSE 1,
                    LookupTiled(call.units, call.supplied, call.board),
                    LookupTraversable(call.units, call.supplied, call.board),
                    FALSE, EmptyCache).result

\* the tiles of the list of the call that belong to team
UnitsOf(team) == {call.units[i] : i \in 1..Len(call.units)} \cap {u \in UnitPool : u.team = team}

\* map is keyed by the ids of the tiles of team that have a closest target
\* among the tiles of the other team, and holds that target under field
\* with its distance
MapOfClosest(map, team, other, field) ==
  /\ DOMAIN map =
       {getId(u.hex) : u \in {v \in UnitsOf(team) :
                                ClosestOf(v, TeamTiles(call.units, other)).found}}
  /\ \A u \in UnitsOf(team) :
       getId(u.hex) \in DOMAIN map =>
         /\ DOMAIN map[getId(u.hex)] = {field, "distance"}
         /\ map[getId(u.hex)][field] =
              ClosestOf(u, TeamTiles(call.units, other)).hexId
         /\ map[getId(u.hex)].distance =
              ClosestOf(u, TeamTiles(call.units, other)).distance

Queries ==
  {"findPath", "findPathDistance", "calculateEffectiveDistance",
   "calculateRangedMovementDistance", "findClosestTarget",
   "getClosestEnemyMap", "getClosestAllyMap"}

\* the last step was a query
QueryCall == call.op \in Queries

\* C35: no query changes pathCacheSize, getClosestEnemyMap never changes
\* the closest-ally cache and getClosestAllyMap never changes the
\* closest-enemy cache.
C35_QueryFrame ==
  /\ QueryCall =>
       /\ getStats(cache).pathCacheSize = getStats(call.before).pathCacheSize
       /\ cache.pathCache = call.before.pathCache
  /\ call.op = "getClosestEnemyMap" =>
       cache.closestAllyCache = call.before.closestAllyCache
  /\ call.op = "getClosestAllyMap" =>
       cache.closestEnemyCache = call.before.closestEnemyCache
  /\ call.op \in {"findPath", "findPathDistance",
                  "calculateRangedMovementDistance"} => cache = call.before

\* with a path stored and an ally map cached, getClosestEnemyMap has cached
\* a map of its own and distances with it
C35_Witness ==
  /\ call.op = "getClosestEnemyMap" /\ call.cachingEnabled
  /\ getStats(call.before).pathCacheSize = 1
  /\ getStats(call.before).closestAllyCacheSize = 1
  /\ getStats(call.before).closestEnemyCacheSize = 0
  /\ getStats(cache).closestEnemyCacheSize = 1
  /\ getStats(cache).effectiveDistanceCacheSize
       > getStats(call.before).effectiveDistanceCacheSize

(***************************************************************************)
(* Properties of PathfindingCache (SpecCache).                             *)
(***************************************************************************)
CacheOp == call.op # "none" /\ "before" \in DOMAIN call /\ "clock" \in DOMAIN call

\* the key of entries that was set or hit the longest ago
LeastRecentlyUsed(entries, used) ==
  CHOOSE key \in KeysOf(entries) :
    \A other \in KeysOf(entries) : used[key] <= used[other]

\* a new key set into the full cache of kind replaced exactly its least
\* recently used key
EvictsLeastRecent(kind) ==
  (/\ call.op = "set" /\ kind \in call.wrote
   /\ Len(call.before[kind]) = CacheCapacity(kind)
   /\ call.key \notin KeysOf(call.before[kind])) =>
     KeysOf(cache[kind]) =
       (KeysOf(call.before[kind])
          \ {LeastRecentlyUsed(call.before[kind], call.used[kind])})
         \cup {call.key}

\* C16: after any writes and queries getStats reports at most 500 paths,
\* 500 effective distances, 100 enemy maps and 100 ally maps, and a new key
\* set into a full cache (the 501st of a 500-entry one) evicts the least
\* recently used entry and no other.
C16_BoundedLru ==
  CacheOp =>
    /\ getStats(cache).pathCacheSize <= 500
    /\ getStats(cache).effectiveDistanceCacheSize <= 500
    /\ getStats(cache).closestEnemyCacheSize <= 100
    /\ getStats(cache).closestAllyCacheSize <= 100
    /\ \A kind \in CacheKinds : EvictsLeastRecent(kind)

\* key 501 was set into the path cache holding 500 keys after key 1, the
\* first one inserted, had been queried: key 2 went and key 1 stayed
C16_Witness ==
  /\ CacheOp /\ call.op = "set" /\ call.key = 501
  /\ Len(call.before.pathCache) = 500
  /\ getStats(cache).pathCacheSize = 500
  /\ 1 \in KeysOf(cache.pathCache)
  /\ 2 \notin KeysOf(cache.pathCache)

(***************************************************************************)
(* Properties of the maps of reordered lists (SpecOrder).                  *)
(***************************************************************************)
Reordered == MapCall /\ "reordered" \in DOMAIN call

\* C21 as stated: the map of a list and the map of the same tiles in
\* another order are equal, with caching disabled and when the second call
\* hits the entry the first one wrote.
C21_OrderIndependentMaps ==
  Reordered => call.second = call.result

\* the part of C21 that holds: with caching enabled the second call
\* returns the map the first one stored
C21_SecondCallHits ==
  (Reordered /\ call.cachingEnabled) =>
    call.second = call.result /\ call.secondLookups = 0

\* the second call of the run repeated the first with the same arguments
Repeated == Reordered /\ call.reordered = call.units

\* C29: a map call repeated at once with the same arguments, cache and
\* caching enabled returns the stored map without a tile lookup or a
\* search and leaves the four cache sizes as they were.
C29_RepeatedMapHits ==
  (Repeated /\ call.cachingEnabled) =>
    /\ call.second = call.result
    /\ call.secondLookups = 0
    /\ getStats(cache) = getStats(call.between)
    /\ MemoHas(IF call.op = "getClosestEnemyMap"
                 THEN call.between.closestEnemyCache
                 ELSE call.between.closestAllyCache,
               generateGridCacheKey(call.units, call.ranges))

\* an enemy map that took tile lookups to build and none when the call
\* was repeated
C29_Witness ==
  /\ Repeated /\ call.cachingEnabled /\ call.op = "getClosestEnemyMap"
  /\ call.lookups > 0 /\ call.result # <<>>
  /\ call.secondLookups = 0 /\ call.second = call.result
  /\ getStats(cache).closestEnemyCacheSize = 1

(***************************************************************************)
(* Properties of clearing (SpecCache).                                     *)
(***************************************************************************)
\* the cache that clearSpecific(cacheType) names
NamedCache(cacheType) ==
  IF cacheType = "path" THEN "pathCache"
  ELSE IF cacheType = "effectiveDistance" THEN "effectiveDistanceCache"
  ELSE IF cacheType = "closestEnemy" THEN "closestEnemyCache"
  ELSE "closestAllyCache"

\* the last operation took entries away from the cache of kind only by
\* setting a new key into it when it was full
LostOnlyByEviction(kind) ==
  \/ KeysOf(call.before[kind]) \subseteq KeysOf(cache[kind])
  \/ /\ call.op = "set" /\ kind \in call.wrote
     /\ Len(call.before[kind]) = CacheCapacity(kind)
     /\ call.key \notin KeysOf(call.before[kind])
     /\ Cardinality(KeysOf(call.before[kind]) \ KeysOf(cache[kind])) = 1

\* C30: clear leaves the four caches with size 0; clearSpecific leaves the
\* named cache with size 0 and the other three as they were; a set or a
\* get takes an entry away only by capacity eviction.
C30_Clearing ==
  CacheOp =>
    /\ call.op = "clear" =>
         /\ getStats(cache).pathCacheSize = 0
         /\ getStats(cache).effectiveDistanceCacheSize = 0
         /\ getStats(cache).closestEnemyCacheSize = 0
         /\ getStats(cache).closestAllyCacheSize = 0
    /\ call.op \in CacheTypes =>
         \A kind \in CacheKinds :
           IF kind = NamedCache(call.op) THEN Len(cache[kind]) = 0
           ELSE cache[kind] = call.before[kind]
    /\ call.op \in {"set", "get"} =>
         \A kind \in CacheKinds : LostOnlyByEviction(kind)

\* the full cache of enemy maps was cleared on its own while the path
\* cache kept its entries
C30_Witness ==
  /\ CacheOp /\ call.op = "closestEnemy"
  /\ Len(call.before.closestEnemyCache) = ClosestEnemyCacheCapacity
  /\ getStats(cache).closestEnemyCacheSize = 0
  /\ getStats(cache).pathCacheSize = ClosestEnemyCacheCapacity
  /\ cache.pathCache = call.before.pathCache


(***************************************************************************)
(* Properties of the drag state (SpecDrag).                                *)
(***************************************************************************)
\* C36: isDragging is true exactly when draggedCharacter is non-null;
\* endDrag resets isDragging, draggedCharacter, draggedImageSrc and
\* hoveredHexId and leaves dropHandled unchanged; startDrag with an event
\* that has no dataTransfer changes no drag state at all.
C36_DragState ==
  /\ drag.isDragging <=> drag.draggedCharacter # null
  /\ call.op = "endDrag" =>
       /\ ~drag.isDragging
       /\ drag.draggedCharacter = null
       /\ drag.draggedImageSrc = ""
       /\ drag.hoveredHexId = noHexId
       /\ drag.dropHandled = call.before.dropHandled
  /\ (call.op = "startDrag" /\ ~call.event.dataTransfer) => drag = call.before

\* a drag whose drop was handled over a hovered hex has ended
C36_Witness ==
  /\ call.op = "endDrag"
  /\ call.before.isDragging /\ call.before.draggedCharacter = "knight"
  /\ call.before.hoveredHexId # noHexId
  /\ call.before.dropHandled /\ drag.dropHandled
  /\ call.before.draggedImageSrc = "Knight"

\* startDrag returned at once during a drag that was under way
C36_WitnessNoTransfer ==
  /\ call.op = "startDrag" /\ ~call.event.dataTransfer
  /\ drag.isDragging /\ drag.dropHandled


(***************************************************************************)
(* Properties of the diagonal rows (SpecRows).                             *)
(***************************************************************************)
\* the 15 rows of the table, as sets of ids
TabledRows ==
  {1..2, 3..5, 6..7, 8..10, 11..14, 15..17, 18..21, 22..24, 25..28, 29..31,
   32..35, 36..38, 39..40, 41..43, 44..45}

\* the last id of the table
TableEnd == rowEndings[Len(rowEndings)]

RowsCompared == call.op = "areHexesInSameDiagonalRow"

\* C37: areHexesInSameDiagonalRow is reflexive, symmetric and transitive on
\* positive hex ids, its classes are contiguous ranges of ids, on the ids
\* 1..45 they are the 15 tabled rows, and no id above 45 shares a row with
\* an id at or below 45.
C37_DiagonalRows ==
  RowsCompared =>
    /\ areHexesInSameDiagonalRow(call.hexId1, call.hexId1)
    /\ call.result = call.swapped
    /\ \A c \in HexIds :
         (call.result /\ areHexesInSameDiagonalRow(call.hexId2, c)) =>
           areHexesInSameDiagonalRow(call.hexId1, c)
    /\ \A c \in HexIds :
         (call.result /\ call.hexId1 <= c /\ c <= call.hexId2) =>
           areHexesInSameDiagonalRow(call.hexId1, c)
    /\ (call.hexId1 <= TableEnd /\ call.hexId2 <= TableEnd) =>
         (call.result <=>
            \E row \in TabledRows : call.hexId1 \in row /\ call.hexId2 \in row)
    /\ ((call.hexId1 <= TableEnd) # (call.hexId2 <= TableEnd)) => ~call.result
    /\ UNION TabledRows = 1..TableEnd

\* the first and the last id of a row of four beyond the table share it
C37_Witness ==
  /\ RowsCompared
  /\ call.hexId1 = 49 /\ call.hexId2 = 52
  /\ call.result
  /\ ~areHexesInSameDiagonalRow(48, 49) /\ ~areHexesInSameDiagonalRow(52, 53)

\* the last id of the table and the first beyond it are in different rows
C37_WitnessBoundary ==
  /\ RowsCompared
  /\ call.hexId1 = TableEnd /\ call.hexId2 = TableEnd + 1
  /\ ~call.result

====
